---- MODULE Spec2Model ----
(***************************************************************************)
(* Model of brand-kit-gen's colour extraction: the colour utilities        *)
(* (utils/color_utils.py), the collector and classifier of                 *)
(* ColorExtractor (extractors/color_extractor.py) and the caller that      *)
(* builds a BrandIdentity from the extraction (brand_kit_gen.py).          *)
(*                                                                         *)
(* A Python str is the sequence of the code points of its characters, so   *)
(* that parsing and formatting are computed character by character.  A     *)
(* luminance is the double the code computes, held exactly as an integer   *)
(* multiple of 2^-68.  An int read from an rgb() call has no bound and is  *)
(* held as the sequence of its hexadecimal digits.  A ValueError that no   *)
(* handler of the code catches ends the extraction at pc = "ValueError".   *)
(***************************************************************************)
EXTENDS Integers, Sequences, FiniteSets, TLC

VARIABLES pc, page, args, unique_colors, color_counts, semantic_colors,
          classified, color_data, brand, color_arg, normalizations,
          luminance_value,
          _image_cache, cache_calls, requests,
          environ, requested_provider, provider,
          playwright_available, method, generated_with

\* the state of the colour extraction, of the image cache of the web
\* application, of the AI provider selection and of the command line's
\* choice of a generator
color_vars == <<page, args, unique_colors, color_counts, semantic_colors,
                classified, color_data, brand, color_arg, normalizations>>

cache_vars == <<_image_cache, cache_calls, requests>>

provider_vars == <<environ, requested_provider, provider>>

main_vars == <<playwright_available, method, generated_with>>

other_vars == <<luminance_value, cache_vars, provider_vars, main_vars>>

vars == <<pc, color_vars, other_vars>>

(***************************************************************************)
(* Bounds of the model.                                                    *)
(***************************************************************************)
\* largest number of _get_cached and _set_cached calls made on a filled cache
MaxCalls == 3
\* largest number of requests the preview endpoints receive
MaxRequests == 3
\* longest corpus (number of unique colours) handed to the classifier
MaxColors == 4
\* largest number of samples (summed occurrence counts) of such a corpus
MaxSamples == 6
\* largest number of text fragments a fetched page is made of
MaxFrags == 3
\* largest number of stylesheet links of a fetched page
MaxLinks == 4

\* the digits a zero-padded channel of rgb() is written in
PaddedDigits == 12

(***************************************************************************)
(* Characters.  A character is its Unicode code point, 0..1114111, and a   *)
(* Python str is the sequence of its characters.  The tables are those of  *)
(* Python 3.11 (Unicode 14.0.0) over every code point.                     *)
(***************************************************************************)
\* the characters U+0020..U+005F and U+0061..U+007E, in code point order
AsciiUpTo5F ==
    <<" ", "!", "\"", "#", "$", "%", "&", "'", "(", ")", "*", "+", ",", "-",
     ".", "/", "0", "1", "2", "3", "4", "5", "6", "7", "8", "9", ":", ";",
     "<", "=", ">", "?", "@", "A", "B", "C", "D", "E", "F", "G", "H", "I",
     "J", "K", "L", "M", "N", "O", "P", "Q", "R", "S", "T", "U", "V", "W",
     "X", "Y", "Z", "[", "\\", "]", "^", "_">>

AsciiFrom61 ==
    <<"a", "b", "c", "d", "e", "f", "g", "h", "i", "j", "k", "l", "m", "n",
     "o", "p", "q", "r", "s", "t", "u", "v", "w", "x", "y", "z", "{", "|",
     "}", "~">>

\* ord(c) of a printable ASCII character written as a string
ord(c) ==
    IF \E i \in 1..64 : AsciiUpTo5F[i] = c
    THEN 31 + (CHOOSE i \in 1..64 : AsciiUpTo5F[i] = c)
    ELSE 96 + (CHOOSE i \in 1..30 : AsciiFrom61[i] = c)

\* the str whose characters are written one by one
str(chars) == [k \in 1..Len(chars) |-> ord(chars[k])]

\* the characters str.isspace() holds for: what str.strip() removes and the
\* regex class \s
Whitespace ==
    {\h0009, \h000A, \h000B, \h000C, \h000D, \h001C, \h001D, \h001E, \h001F,
     \h0020, \h0085, \h00A0, \h1680, \h2000, \h2001, \h2002, \h2003, \h2004,
     \h2005, \h2006, \h2007, \h2008, \h2009, \h200A, \h2028, \h2029, \h202F,
     \h205F, \h3000}

\* the whitespace int() accepts around a number
IntWhitespace == Whitespace \ (\h001C..\h001F)

\* the digit zero of every script: the decimal digits are the ten
\* characters from a zero on, of values 0..9
DigitZeros ==
    {\h0030, \h0660, \h06F0, \h07C0, \h0966, \h09E6, \h0A66, \h0AE6, \h0B66,
     \h0BE6, \h0C66, \h0CE6, \h0D66, \h0DE6, \h0E50, \h0ED0, \h0F20, \h1040,
     \h1090, \h17E0, \h1810, \h1946, \h19D0, \h1A80, \h1A90, \h1B50, \h1BB0,
     \h1C40, \h1C50, \hA620, \hA8D0, \hA900, \hA9D0, \hA9F0, \hAA50, \hABF0,
     \hFF10, \h104A0, \h10D30, \h11066, \h110F0, \h11136, \h111D0, \h112F0,
     \h11450, \h114D0, \h11650, \h116C0, \h11730, \h118E0, \h11950, \h11C50,
     \h11D50, \h11DA0, \h16A60, \h16AC0, \h16B50, \h1D7CE, \h1D7D8, \h1D7E2,
     \h1D7EC, \h1D7F6, \h1E140, \h1E2F0, \h1E950, \h1FBF0}

\* str.lower() of every character it changes into one character: <<c, lower>>
LowerPairs ==
    {<<\h0041, \h0061>>, <<\h0042, \h0062>>, <<\h0043, \h0063>>,
     <<\h0044, \h0064>>, <<\h0045, \h0065>>, <<\h0046, \h0066>>,
     <<\h0047, \h0067>>, <<\h0048, \h0068>>, <<\h0049, \h0069>>,
     <<\h004A, \h006A>>, <<\h004B, \h006B>>, <<\h004C, \h006C>>,
     <<\h004D, \h006D>>, <<\h004E, \h006E>>, <<\h004F, \h006F>>,
     <<\h0050, \h0070>>, <<\h0051, \h0071>>, <<\h0052, \h0072>>,
     <<\h0053, \h0073>>, <<\h0054, \h0074>>, <<\h0055, \h0075>>,
     <<\h0056, \h0076>>, <<\h0057, \h0077>>, <<\h0058, \h0078>>,
     <<\h0059, \h0079>>, <<\h005A, \h007A>>, <<\h00C0, \h00E0>>,
     <<\h00C1, \h00E1>>, <<\h00C2, \h00E2>>, <<\h00C3, \h00E3>>,
     <<\h00C4, \h00E4>>, <<\h00C5, \h00E5>>, <<\h00C6, \h00E6>>,
     <<\h00C7, \h00E7>>, <<\h00C8, \h00E8>>, <<\h00C9, \h00E9>>,
     <<\h00CA, \h00EA>>, <<\h00CB, \h00EB>>, <<\h00CC, \h00EC>>,
     <<\h00CD, \h00ED>>, <<\h00CE, \h00EE>>, <<\h00CF, \h00EF>>,
     <<\h00D0, \h00F0>>, <<\h00D1, \h00F1>>, <<\h00D2, \h00F2>>,
     <<\h00D3, \h00F3>>, <<\h00D4, \h00F4>>, <<\h00D5, \h00F5>>,
     <<\h00D6, \h00F6>>, <<\h00D8, \h00F8>>, <<\h00D9, \h00F9>>,
     <<\h00DA, \h00FA>>, <<\h00DB, \h00FB>>, <<\h00DC, \h00FC>>,
     <<\h00DD, \h00FD>>, <<\h00DE, \h00FE>>, <<\h0100, \h0101>>,
     <<\h0102, \h0103>>, <<\h0104, \h0105>>, <<\h0106, \h0107>>,
     <<\h0108, \h0109>>, <<\h010A, \h010B>>, <<\h010C, \h010D>>,
     <<\h010E, \h010F>>, <<\h0110, \h0111>>, <<\h0112, \h0113>>,
     <<\h0114, \h0115>>, <<\h0116, \h0117>>, <<\h0118, \h0119>>,
     <<\h011A, \h011B>>, <<\h011C, \h011D>>, <<\h011E, \h011F>>,
     <<\h0120, \h0121>>, <<\h0122, \h0123>>, <<\h0124, \h0125>>,
     <<\h0126, \h0127>>, <<\h0128, \h0129>>, <<\h012A, \h012B>>,
     <<\h012C, \h012D>>, <<\h012E, \h012F>>, <<\h0132, \h0133>>,
     <<\h0134, \h0135>>, <<\h0136, \h0137>>, <<\h0139, \h013A>>,
     <<\h013B, \h013C>>, <<\h013D, \h013E>>, <<\h013F, \h0140>>,
     <<\h0141, \h0142>>, <<\h0143, \h0144>>, <<\h0145, \h0146>>,
     <<\h0147, \h0148>>, <<\h014A, \h014B>>, <<\h014C, \h014D>>,
     <<\h014E, \h014F>>, <<\h0150, \h0151>>, <<\h0152, \h0153>>,
     <<\h0154, \h0155>>, <<\h0156, \h0157>>, <<\h0158, \h0159>>,
     <<\h015A, \h015B>>, <<\h015C, \h015D>>, <<\h015E, \h015F>>,
     <<\h0160, \h0161>>, <<\h0162, \h0163>>, <<\h0164, \h0165>>,
     <<\h0166, \h0167>>, <<\h0168, \h0169>>, <<\h016A, \h016B>>,
     <<\h016C, \h016D>>, <<\h016E, \h016F>>, <<\h0170, \h0171>>,
     <<\h0172, \h0173>>, <<\h0174, \h0175>>, <<\h0176, \h0177>>,
     <<\h0178, \h00FF>>, <<\h0179, \h017A>>, <<\h017B, \h017C>>,
     <<\h017D, \h017E>>, <<\h0181, \h0253>>, <<\h0182, \h0183>>,
     <<\h0184, \h0185>>, <<\h0186, \h0254>>, <<\h0187, \h0188>>,
     <<\h0189, \h0256>>, <<\h018A, \h0257>>, <<\h018B, \h018C>>,
     <<\h018E, \h01DD>>, <<\h018F, \h0259>>, <<\h0190, \h025B>>,
     <<\h0191, \h0192>>, <<\h0193, \h0260>>, <<\h0194, \h0263>>,
     <<\h0196, \h0269>>, <<\h0197, \h0268>>, <<\h0198, \h0199>>,
     <<\h019C, \h026F>>, <<\h019D, \h0272>>, <<\h019F, \h0275>>,
     <<\h01A0, \h01A1>>, <<\h01A2, \h01A3>>, <<\h01A4, \h01A5>>,
     <<\h01A6, \h0280>>, <<\h01A7, \h01A8>>, <<\h01A9, \h0283>>,
     <<\h01AC, \h01AD>>, <<\h01AE, \h0288>>, <<\h01AF, \h01B0>>,
     <<\h01B1, \h028A>>, <<\h01B2, \h028B>>, <<\h01B3, \h01B4>>,
     <<\h01B5, \h01B6>>, <<\h01B7, \h0292>>, <<\h01B8, \h01B9>>,
     <<\h01BC, \h01BD>>, <<\h01C4, \h01C6>>, <<\h01C5, \h01C6>>,
     <<\h01C7, \h01C9>>, <<\h01C8, \h01C9>>, <<\h01CA, \h01CC>>,
     <<\h01CB, \h01CC>>, <<\h01CD, \h01CE>>, <<\h01CF, \h01D0>>,
     <<\h01D1, \h01D2>>, <<\h01D3, \h01D4>>, <<\h01D5, \h01D6>>,
     <<\h01D7, \h01D8>>, <<\h01D9, \h01DA>>, <<\h01DB, \h01DC>>,
     <<\h01DE, \h01DF>>, <<\h01E0, \h01E1>>, <<\h01E2, \h01E3>>,
     <<\h01E4, \h01E5>>, <<\h01E6, \h01E7>>, <<\h01E8, \h01E9>>,
     <<\h01EA, \h01EB>>, <<\h01EC, \h01ED>>, <<\h01EE, \h01EF>>,
     <<\h01F1, \h01F3>>, <<\h01F2, \h01F3>>, <<\h01F4, \h01F5>>,
     <<\h01F6, \h0195>>, <<\h01F7, \h01BF>>, <<\h01F8, \h01F9>>,
     <<\h01FA, \h01FB>>, <<\h01FC, \h01FD>>, <<\h01FE, \h01FF>>,
     <<\h0200, \h0201>>, <<\h0202, \h0203>>, <<\h0204, \h0205>>,
     <<\h0206, \h0207>>, <<\h0208, \h0209>>, <<\h020A, \h020B>>,
     <<\h020C, \h020D>>, <<\h020E, \h020F>>, <<\h0210, \h0211>>,
     <<\h0212, \h0213>>, <<\h0214, \h0215>>, <<\h0216, \h0217>>,
     <<\h0218, \h0219>>, <<\h021A, \h021B>>, <<\h021C, \h021D>>,
     <<\h021E, \h021F>>, <<\h0220, \h019E>>, <<\h0222, \h0223>>,
     <<\h0224, \h0225>>, <<\h0226, \h0227>>, <<\h0228, \h0229>>,
     <<\h022A, \h022B>>, <<\h022C, \h022D>>, <<\h022E, \h022F>>,
     <<\h0230, \h0231>>, <<\h0232, \h0233>>, <<\h023A, \h2C65>>,
     <<\h023B, \h023C>>, <<\h023D, \h019A>>, <<\h023E, \h2C66>>,
     <<\h0241, \h0242>>, <<\h0243, \h0180>>, <<\h0244, \h0289>>,
     <<\h0245, \h028C>>, <<\h0246, \h0247>>, <<\h0248, \h0249>>,
     <<\h024A, \h024B>>, <<\h024C, \h024D>>, <<\h024E, \h024F>>,
     <<\h0370, \h0371>>, <<\h0372, \h0373>>, <<\h0376, \h0377>>,
     <<\h037F, \h03F3>>, <<\h0386, \h03AC>>, <<\h0388, \h03AD>>,
     <<\h0389, \h03AE>>, <<\h038A, \h03AF>>, <<\h038C, \h03CC>>,
     <<\h038E, \h03CD>>, <<\h038F, \h03CE>>, <<\h0391, \h03B1>>,
     <<\h0392, \h03B2>>, <<\h0393, \h03B3>>, <<\h0394, \h03B4>>,
     <<\h0395, \h03B5>>, <<\h0396, \h03B6>>, <<\h0397, \h03B7>>,
     <<\h0398, \h03B8>>, <<\h0399, \h03B9>>, <<\h039A, \h03BA>>,
     <<\h039B, \h03BB>>, <<\h039C, \h03BC>>, <<\h039D, \h03BD>>,
     <<\h039E, \h03BE>>, <<\h039F, \h03BF>>, <<\h03A0, \h03C0>>,
     <<\h03A1, \h03C1>>, <<\h03A3, \h03C3>>, <<\h03A4, \h03C4>>,
     <<\h03A5, \h03C5>>, <<\h03A6, \h03C6>>, <<\h03A7, \h03C7>>,
     <<\h03A8, \h03C8>>, <<\h03A9, \h03C9>>, <<\h03AA, \h03CA>>,
     <<\h03AB, \h03CB>>, <<\h03CF, \h03D7>>, <<\h03D8, \h03D9>>,
     <<\h03DA, \h03DB>>, <<\h03DC, \h03DD>>, <<\h03DE, \h03DF>>,
     <<\h03E0, \h03E1>>, <<\h03E2, \h03E3>>, <<\h03E4, \h03E5>>,
     <<\h03E6, \h03E7>>, <<\h03E8, \h03E9>>, <<\h03EA, \h03EB>>,
     <<\h03EC, \h03ED>>, <<\h03EE, \h03EF>>, <<\h03F4, \h03B8>>,
     <<\h03F7, \h03F8>>, <<\h03F9, \h03F2>>, <<\h03FA, \h03FB>>,
     <<\h03FD, \h037B>>, <<\h03FE, \h037C>>, <<\h03FF, \h037D>>,
     <<\h0400, \h0450>>, <<\h0401, \h0451>>, <<\h0402, \h0452>>,
     <<\h0403, \h0453>>, <<\h0404, \h0454>>, <<\h0405, \h0455>>,
     <<\h0406, \h0456>>, <<\h0407, \h0457>>, <<\h0408, \h0458>>,
     <<\h0409, \h0459>>, <<\h040A, \h045A>>, <<\h040B, \h045B>>,
     <<\h040C, \h045C>>, <<\h040D, \h045D>>, <<\h040E, \h045E>>,
     <<\h040F, \h045F>>, <<\h0410, \h0430>>, <<\h0411, \h0431>>,
     <<\h0412, \h0432>>, <<\h0413, \h0433>>, <<\h0414, \h0434>>,
     <<\h0415, \h0435>>, <<\h0416, \h0436>>, <<\h0417, \h0437>>,
     <<\h0418, \h0438>>, <<\h0419, \h0439>>, <<\h041A, \h043A>>,
     <<\h041B, \h043B>>, <<\h041C, \h043C>>, <<\h041D, \h043D>>,
     <<\h041E, \h043E>>, <<\h041F, \h043F>>, <<\h0420, \h0440>>,
     <<\h0421, \h0441>>, <<\h0422, \h0442>>, <<\h0423, \h0443>>,
     <<\h0424, \h0444>>, <<\h0425, \h0445>>, <<\h0426, \h0446>>,
     <<\h0427, \h0447>>, <<\h0428, \h0448>>, <<\h0429, \h0449>>,
     <<\h042A, \h044A>>, <<\h042B, \h044B>>, <<\h042C, \h044C>>,
     <<\h042D, \h044D>>, <<\h042E, \h044E>>, <<\h042F, \h044F>>,
     <<\h0460, \h0461>>, <<\h0462, \h0463>>, <<\h0464, \h0465>>,
     <<\h0466, \h0467>>, <<\h0468, \h0469>>, <<\h046A, \h046B>>,
     <<\h046C, \h046D>>, <<\h046E, \h046F>>, <<\h0470, \h0471>>,
     <<\h0472, \h0473>>, <<\h0474, \h0475>>, <<\h0476, \h0477>>,
     <<\h0478, \h0479>>, <<\h047A, \h047B>>, <<\h047C, \h047D>>,
     <<\h047E, \h047F>>, <<\h0480, \h0481>>, <<\h048A, \h048B>>,
     <<\h048C, \h048D>>, <<\h048E, \h048F>>, <<\h0490, \h0491>>,
     <<\h0492, \h0493>>, <<\h0494, \h0495>>, <<\h0496, \h0497>>,
     <<\h0498, \h0499>>, <<\h049A, \h049B>>, <<\h049C, \h049D>>,
     <<\h049E, \h049F>>, <<\h04A0, \h04A1>>, <<\h04A2, \h04A3>>,
     <<\h04A4, \h04A5>>, <<\h04A6, \h04A7>>, <<\h04A8, \h04A9>>,
     <<\h04AA, \h04AB>>, <<\h04AC, \h04AD>>, <<\h04AE, \h04AF>>,
     <<\h04B0, \h04B1>>, <<\h04B2, \h04B3>>, <<\h04B4, \h04B5>>,
     <<\h04B6, \h04B7>>, <<\h04B8, \h04B9>>, <<\h04BA, \h04BB>>,
     <<\h04BC, \h04BD>>, <<\h04BE, \h04BF>>, <<\h04C0, \h04CF>>,
     <<\h04C1, \h04C2>>, <<\h04C3, \h04C4>>, <<\h04C5, \h04C6>>,
     <<\h04C7, \h04C8>>, <<\h04C9, \h04CA>>, <<\h04CB, \h04CC>>,
     <<\h04CD, \h04CE>>, <<\h04D0, \h04D1>>, <<\h04D2, \h04D3>>,
     <<\h04D4, \h04D5>>, <<\h04D6, \h04D7>>, <<\h04D8, \h04D9>>,
     <<\h04DA, \h04DB>>, <<\h04DC, \h04DD>>, <<\h04DE, \h04DF>>,
     <<\h04E0, \h04E1>>, <<\h04E2, \h04E3>>, <<\h04E4, \h04E5>>,
     <<\h04E6, \h04E7>>, <<\h04E8, \h04E9>>, <<\h04EA, \h04EB>>,
     <<\h04EC, \h04ED>>, <<\h04EE, \h04EF>>, <<\h04F0, \h04F1>>,
     <<\h04F2, \h04F3>>, <<\h04F4, \h04F5>>, <<\h04F6, \h04F7>>,
     <<\h04F8, \h04F9>>, <<\h04FA, \h04FB>>, <<\h04FC, \h04FD>>,
     <<\h04FE, \h04FF>>, <<\h0500, \h0501>>, <<\h0502, \h0503>>,
     <<\h0504, \h0505>>, <<\h0506, \h0507>>, <<\h0508, \h0509>>,
     <<\h050A, \h050B>>, <<\h050C, \h050D>>, <<\h050E, \h050F>>,
     <<\h0510, \h0511>>, <<\h0512, \h0513>>, <<\h0514, \h0515>>,
     <<\h0516, \h0517>>, <<\h0518, \h0519>>, <<\h051A, \h051B>>,
     <<\h051C, \h051D>>, <<\h051E, \h051F>>, <<\h0520, \h0521>>,
     <<\h0522, \h0523>>, <<\h0524, \h0525>>, <<\h0526, \h0527>>,
     <<\h0528, \h0529>>, <<\h052A, \h052B>>, <<\h052C, \h052D>>,
     <<\h052E, \h052F>>, <<\h0531, \h0561>>, <<\h0532, \h0562>>,
     <<\h0533, \h0563>>, <<\h0534, \h0564>>, <<\h0535, \h0565>>,
     <<\h0536, \h0566>>, <<\h0537, \h0567>>, <<\h0538, \h0568>>,
     <<\h0539, \h0569>>, <<\h053A, \h056A>>, <<\h053B, \h056B>>,
     <<\h053C, \h056C>>, <<\h053D, \h056D>>, <<\h053E, \h056E>>,
     <<\h053F, \h056F>>, <<\h0540, \h0570>>, <<\h0541, \h0571>>,
     <<\h0542, \h0572>>, <<\h0543, \h0573>>, <<\h0544, \h0574>>,
     <<\h0545, \h0575>>, <<\h0546, \h0576>>, <<\h0547, \h0577>>,
     <<\h0548, \h0578>>, <<\h0549, \h0579>>, <<\h054A, \h057A>>,
     <<\h054B, \h057B>>, <<\h054C, \h057C>>, <<\h054D, \h057D>>,
     <<\h054E, \h057E>>, <<\h054F, \h057F>>, <<\h0550, \h0580>>,
     <<\h0551, \h0581>>, <<\h0552, \h0582>>, <<\h0553, \h0583>>,
     <<\h0554, \h0584>>, <<\h0555, \h0585>>, <<\h0556, \h0586>>,
     <<\h10A0, \h2D00>>, <<\h10A1, \h2D01>>, <<\h10A2, \h2D02>>,
     <<\h10A3, \h2D03>>, <<\h10A4, \h2D04>>, <<\h10A5, \h2D05>>,
     <<\h10A6, \h2D06>>, <<\h10A7, \h2D07>>, <<\h10A8, \h2D08>>,
     <<\h10A9, \h2D09>>, <<\h10AA, \h2D0A>>, <<\h10AB, \h2D0B>>,
     <<\h10AC, \h2D0C>>, <<\h10AD, \h2D0D>>, <<\h10AE, \h2D0E>>,
     <<\h10AF, \h2D0F>>, <<\h10B0, \h2D10>>, <<\h10B1, \h2D11>>,
     <<\h10B2, \h2D12>>, <<\h10B3, \h2D13>>, <<\h10B4, \h2D14>>,
     <<\h10B5, \h2D15>>, <<\h10B6, \h2D16>>, <<\h10B7, \h2D17>>,
     <<\h10B8, \h2D18>>, <<\h10B9, \h2D19>>, <<\h10BA, \h2D1A>>,
     <<\h10BB, \h2D1B>>, <<\h10BC, \h2D1C>>, <<\h10BD, \h2D1D>>,
     <<\h10BE, \h2D1E>>, <<\h10BF, \h2D1F>>, <<\h10C0, \h2D20>>,
     <<\h10C1, \h2D21>>, <<\h10C2, \h2D22>>, <<\h10C3, \h2D23>>,
     <<\h10C4, \h2D24>>, <<\h10C5, \h2D25>>, <<\h10C7, \h2D27>>,
     <<\h10CD, \h2D2D>>, <<\h13A0, \hAB70>>, <<\h13A1, \hAB71>>,
     <<\h13A2, \hAB72>>, <<\h13A3, \hAB73>>, <<\h13A4, \hAB74>>,
     <<\h13A5, \hAB75>>, <<\h13A6, \hAB76>>, <<\h13A7, \hAB77>>,
     <<\h13A8, \hAB78>>, <<\h13A9, \hAB79>>, <<\h13AA, \hAB7A>>,
     <<\h13AB, \hAB7B>>, <<\h13AC, \hAB7C>>, <<\h13AD, \hAB7D>>,
     <<\h13AE, \hAB7E>>, <<\h13AF, \hAB7F>>, <<\h13B0, \hAB80>>,
     <<\h13B1, \hAB81>>, <<\h13B2, \hAB82>>, <<\h13B3, \hAB83>>,
     <<\h13B4, \hAB84>>, <<\h13B5, \hAB85>>, <<\h13B6, \hAB86>>,
     <<\h13B7, \hAB87>>, <<\h13B8, \hAB88>>, <<\h13B9, \hAB89>>,
     <<\h13BA, \hAB8A>>, <<\h13BB, \hAB8B>>, <<\h13BC, \hAB8C>>,
     <<\h13BD, \hAB8D>>, <<\h13BE, \hAB8E>>, <<\h13BF, \hAB8F>>,
     <<\h13C0, \hAB90>>, <<\h13C1, \hAB91>>, <<\h13C2, \hAB92>>,
     <<\h13C3, \hAB93>>, <<\h13C4, \hAB94>>, <<\h13C5, \hAB95>>,
     <<\h13C6, \hAB96>>, <<\h13C7, \hAB97>>, <<\h13C8, \hAB98>>,
     <<\h13C9, \hAB99>>, <<\h13CA, \hAB9A>>, <<\h13CB, \hAB9B>>,
     <<\h13CC, \hAB9C>>, <<\h13CD, \hAB9D>>, <<\h13CE, \hAB9E>>,
     <<\h13CF, \hAB9F>>, <<\h13D0, \hABA0>>, <<\h13D1, \hABA1>>,
     <<\h13D2, \hABA2>>, <<\h13D3, \hABA3>>, <<\h13D4, \hABA4>>,
     <<\h13D5, \hABA5>>, <<\h13D6, \hABA6>>, <<\h13D7, \hABA7>>,
     <<\h13D8, \hABA8>>, <<\h13D9, \hABA9>>, <<\h13DA, \hABAA>>,
     <<\h13DB, \hABAB>>, <<\h13DC, \hABAC>>, <<\h13DD, \hABAD>>,
     <<\h13DE, \hABAE>>, <<\h13DF, \hABAF>>, <<\h13E0, \hABB0>>,
     <<\h13E1, \hABB1>>, <<\h13E2, \hABB2>>, <<\h13E3, \hABB3>>,
     <<\h13E4, \hABB4>>, <<\h13E5, \hABB5>>, <<\h13E6, \hABB6>>,
     <<\h13E7, \hABB7>>, <<\h13E8, \hABB8>>, <<\h13E9, \hABB9>>,
     <<\h13EA, \hABBA>>, <<\h13EB, \hABBB>>, <<\h13EC, \hABBC>>,
     <<\h13ED, \hABBD>>, <<\h13EE, \hABBE>>, <<\h13EF, \hABBF>>,
     <<\h13F0, \h13F8>>, <<\h13F1, \h13F9>>, <<\h13F2, \h13FA>>,
     <<\h13F3, \h13FB>>, <<\h13F4, \h13FC>>, <<\h13F5, \h13FD>>,
     <<\h1C90, \h10D0>>, <<\h1C91, \h10D1>>, <<\h1C92, \h10D2>>,
     <<\h1C93, \h10D3>>, <<\h1C94, \h10D4>>, <<\h1C95, \h10D5>>,
     <<\h1C96, \h10D6>>, <<\h1C97, \h10D7>>, <<\h1C98, \h10D8>>,
     <<\h1C99, \h10D9>>, <<\h1C9A, \h10DA>>, <<\h1C9B, \h10DB>>,
     <<\h1C9C, \h10DC>>, <<\h1C9D, \h10DD>>, <<\h1C9E, \h10DE>>,
     <<\h1C9F, \h10DF>>, <<\h1CA0, \h10E0>>, <<\h1CA1, \h10E1>>,
     <<\h1CA2, \h10E2>>, <<\h1CA3, \h10E3>>, <<\h1CA4, \h10E4>>,
     <<\h1CA5, \h10E5>>, <<\h1CA6, \h10E6>>, <<\h1CA7, \h10E7>>,
     <<\h1CA8, \h10E8>>, <<\h1CA9, \h10E9>>, <<\h1CAA, \h10EA>>,
     <<\h1CAB, \h10EB>>, <<\h1CAC, \h10EC>>, <<\h1CAD, \h10ED>>,
     <<\h1CAE, \h10EE>>, <<\h1CAF, \h10EF>>, <<\h1CB0, \h10F0>>,
     <<\h1CB1, \h10F1>>, <<\h1CB2, \h10F2>>, <<\h1CB3, \h10F3>>,
     <<\h1CB4, \h10F4>>, <<\h1CB5, \h10F5>>, <<\h1CB6, \h10F6>>,
     <<\h1CB7, \h10F7>>, <<\h1CB8, \h10F8>>, <<\h1CB9, \h10F9>>,
     <<\h1CBA, \h10FA>>, <<\h1CBD, \h10FD>>, <<\h1CBE, \h10FE>>,
     <<\h1CBF, \h10FF>>, <<\h1E00, \h1E01>>, <<\h1E02, \h1E03>>,
     <<\h1E04, \h1E05>>, <<\h1E06, \h1E07>>, <<\h1E08, \h1E09>>,
     <<\h1E0A, \h1E0B>>, <<\h1E0C, \h1E0D>>, <<\h1E0E, \h1E0F>>,
     <<\h1E10, \h1E11>>, <<\h1E12, \h1E13>>, <<\h1E14, \h1E15>>,
     <<\h1E16, \h1E17>>, <<\h1E18, \h1E19>>, <<\h1E1A, \h1E1B>>,
     <<\h1E1C, \h1E1D>>, <<\h1E1E, \h1E1F>>, <<\h1E20, \h1E21>>,
     <<\h1E22, \h1E23>>, <<\h1E24, \h1E25>>, <<\h1E26, \h1E27>>,
     <<\h1E28, \h1E29>>, <<\h1E2A, \h1E2B>>, <<\h1E2C, \h1E2D>>,
     <<\h1E2E, \h1E2F>>, <<\h1E30, \h1E31>>, <<\h1E32, \h1E33>>,
     <<\h1E34, \h1E35>>, <<\h1E36, \h1E37>>, <<\h1E38, \h1E39>>,
     <<\h1E3A, \h1E3B>>, <<\h1E3C, \h1E3D>>, <<\h1E3E, \h1E3F>>,
     <<\h1E40, \h1E41>>, <<\h1E42, \h1E43>>, <<\h1E44, \h1E45>>,
     <<\h1E46, \h1E47>>, <<\h1E48, \h1E49>>, <<\h1E4A, \h1E4B>>,
     <<\h1E4C, \h1E4D>>, <<\h1E4E, \h1E4F>>, <<\h1E50, \h1E51>>,
     <<\h1E52, \h1E53>>, <<\h1E54, \h1E55>>, <<\h1E56, \h1E57>>,
     <<\h1E58, \h1E59>>, <<\h1E5A, \h1E5B>>, <<\h1E5C, \h1E5D>>,
     <<\h1E5E, \h1E5F>>, <<\h1E60, \h1E61>>, <<\h1E62, \h1E63>>,
     <<\h1E64, \h1E65>>, <<\h1E66, \h1E67>>, <<\h1E68, \h1E69>>,
     <<\h1E6A, \h1E6B>>, <<\h1E6C, \h1E6D>>, <<\h1E6E, \h1E6F>>,
     <<\h1E70, \h1E71>>, <<\h1E72, \h1E73>>, <<\h1E74, \h1E75>>,
     <<\h1E76, \h1E77>>, <<\h1E78, \h1E79>>, <<\h1E7A, \h1E7B>>,
     <<\h1E7C, \h1E7D>>, <<\h1E7E, \h1E7F>>, <<\h1E80, \h1E81>>,
     <<\h1E82, \h1E83>>, <<\h1E84, \h1E85>>, <<\h1E86, \h1E87>>,
     <<\h1E88, \h1E89>>, <<\h1E8A, \h1E8B>>, <<\h1E8C, \h1E8D>>,
     <<\h1E8E, \h1E8F>>, <<\h1E90, \h1E91>>, <<\h1E92, \h1E93>>,
     <<\h1E94, \h1E95>>, <<\h1E9E, \h00DF>>, <<\h1EA0, \h1EA1>>,
     <<\h1EA2, \h1EA3>>, <<\h1EA4, \h1EA5>>, <<\h1EA6, \h1EA7>>,
     <<\h1EA8, \h1EA9>>, <<\h1EAA, \h1EAB>>, <<\h1EAC, \h1EAD>>,
     <<\h1EAE, \h1EAF>>, <<\h1EB0, \h1EB1>>, <<\h1EB2, \h1EB3>>,
     <<\h1EB4, \h1EB5>>, <<\h1EB6, \h1EB7>>, <<\h1EB8, \h1EB9>>,
     <<\h1EBA, \h1EBB>>, <<\h1EBC, \h1EBD>>, <<\h1EBE, \h1EBF>>,
     <<\h1EC0, \h1EC1>>, <<\h1EC2, \h1EC3>>, <<\h1EC4, \h1EC5>>,
     <<\h1EC6, \h1EC7>>, <<\h1EC8, \h1EC9>>, <<\h1ECA, \h1ECB>>,
     <<\h1ECC, \h1ECD>>, <<\h1ECE, \h1ECF>>, <<\h1ED0, \h1ED1>>,
     <<\h1ED2, \h1ED3>>, <<\h1ED4, \h1ED5>>, <<\h1ED6, \h1ED7>>,
     <<\h1ED8, \h1ED9>>, <<\h1EDA, \h1EDB>>, <<\h1EDC, \h1EDD>>,
     <<\h1EDE, \h1EDF>>, <<\h1EE0, \h1EE1>>, <<\h1EE2, \h1EE3>>,
     <<\h1EE4, \h1EE5>>, <<\h1EE6, \h1EE7>>, <<\h1EE8, \h1EE9>>,
     <<\h1EEA, \h1EEB>>, <<\h1EEC, \h1EED>>, <<\h1EEE, \h1EEF>>,
     <<\h1EF0, \h1EF1>>, <<\h1EF2, \h1EF3>>, <<\h1EF4, \h1EF5>>,
     <<\h1EF6, \h1EF7>>, <<\h1EF8, \h1EF9>>, <<\h1EFA, \h1EFB>>,
     <<\h1EFC, \h1EFD>>, <<\h1EFE, \h1EFF>>, <<\h1F08, \h1F00>>,
     <<\h1F09, \h1F01>>, <<\h1F0A, \h1F02>>, <<\h1F0B, \h1F03>>,
     <<\h1F0C, \h1F04>>, <<\h1F0D, \h1F05>>, <<\h1F0E, \h1F06>>,
     <<\h1F0F, \h1F07>>, <<\h1F18, \h1F10>>, <<\h1F19, \h1F11>>,
     <<\h1F1A, \h1F12>>, <<\h1F1B, \h1F13>>, <<\h1F1C, \h1F14>>,
     <<\h1F1D, \h1F15>>, <<\h1F28, \h1F20>>, <<\h1F29, \h1F21>>,
     <<\h1F2A, \h1F22>>, <<\h1F2B, \h1F23>>, <<\h1F2C, \h1F24>>,
     <<\h1F2D, \h1F25>>, <<\h1F2E, \h1F26>>, <<\h1F2F, \h1F27>>,
     <<\h1F38, \h1F30>>, <<\h1F39, \h1F31>>, <<\h1F3A, \h1F32>>,
     <<\h1F3B, \h1F33>>, <<\h1F3C, \h1F34>>, <<\h1F3D, \h1F35>>,
     <<\h1F3E, \h1F36>>, <<\h1F3F, \h1F37>>, <<\h1F48, \h1F40>>,
     <<\h1F49, \h1F41>>, <<\h1F4A, \h1F42>>, <<\h1F4B, \h1F43>>,
     <<\h1F4C, \h1F44>>, <<\h1F4D, \h1F45>>, <<\h1F59, \h1F51>>,
     <<\h1F5B, \h1F53>>, <<\h1F5D, \h1F55>>, <<\h1F5F, \h1F57>>,
     <<\h1F68, \h1F60>>, <<\h1F69, \h1F61>>, <<\h1F6A, \h1F62>>,
     <<\h1F6B, \h1F63>>, <<\h1F6C, \h1F64>>, <<\h1F6D, \h1F65>>,
     <<\h1F6E, \h1F66>>, <<\h1F6F, \h1F67>>, <<\h1F88, \h1F80>>,
     <<\h1F89, \h1F81>>, <<\h1F8A, \h1F82>>, <<\h1F8B, \h1F83>>,
     <<\h1F8C, \h1F84>>, <<\h1F8D, \h1F85>>, <<\h1F8E, \h1F86>>,
     <<\h1F8F, \h1F87>>, <<\h1F98, \h1F90>>, <<\h1F99, \h1F91>>,
     <<\h1F9A, \h1F92>>, <<\h1F9B, \h1F93>>, <<\h1F9C, \h1F94>>,
     <<\h1F9D, \h1F95>>, <<\h1F9E, \h1F96>>, <<\h1F9F, \h1F97>>,
     <<\h1FA8, \h1FA0>>, <<\h1FA9, \h1FA1>>, <<\h1FAA, \h1FA2>>,
     <<\h1FAB, \h1FA3>>, <<\h1FAC, \h1FA4>>, <<\h1FAD, \h1FA5>>,
     <<\h1FAE, \h1FA6>>, <<\h1FAF, \h1FA7>>, <<\h1FB8, \h1FB0>>,
     <<\h1FB9, \h1FB1>>, <<\h1FBA, \h1F70>>, <<\h1FBB, \h1F71>>,
     <<\h1FBC, \h1FB3>>, <<\h1FC8, \h1F72>>, <<\h1FC9, \h1F73>>,
     <<\h1FCA, \h1F74>>, <<\h1FCB, \h1F75>>, <<\h1FCC, \h1FC3>>,
     <<\h1FD8, \h1FD0>>, <<\h1FD9, \h1FD1>>, <<\h1FDA, \h1F76>>,
     <<\h1FDB, \h1F77>>, <<\h1FE8, \h1FE0>>, <<\h1FE9, \h1FE1>>,
     <<\h1FEA, \h1F7A>>, <<\h1FEB, \h1F7B>>, <<\h1FEC, \h1FE5>>,
     <<\h1FF8, \h1F78>>, <<\h1FF9, \h1F79>>, <<\h1FFA, \h1F7C>>,
     <<\h1FFB, \h1F7D>>, <<\h1FFC, \h1FF3>>, <<\h2126, \h03C9>>,
     <<\h212A, \h006B>>, <<\h212B, \h00E5>>, <<\h2132, \h214E>>,
     <<\h2160, \h2170>>, <<\h2161, \h2171>>, <<\h2162, \h2172>>,
     <<\h2163, \h2173>>, <<\h2164, \h2174>>, <<\h2165, \h2175>>,
     <<\h2166, \h2176>>, <<\h2167, \h2177>>, <<\h2168, \h2178>>,
     <<\h2169, \h2179>>, <<\h216A, \h217A>>, <<\h216B, \h217B>>,
     <<\h216C, \h217C>>, <<\h216D, \h217D>>, <<\h216E, \h217E>>,
     <<\h216F, \h217F>>, <<\h2183, \h2184>>, <<\h24B6, \h24D0>>,
     <<\h24B7, \h24D1>>, <<\h24B8, \h24D2>>, <<\h24B9, \h24D3>>,
     <<\h24BA, \h24D4>>, <<\h24BB, \h24D5>>, <<\h24BC, \h24D6>>,
     <<\h24BD, \h24D7>>, <<\h24BE, \h24D8>>, <<\h24BF, \h24D9>>,
     <<\h24C0, \h24DA>>, <<\h24C1, \h24DB>>, <<\h24C2, \h24DC>>,
     <<\h24C3, \h24DD>>, <<\h24C4, \h24DE>>, <<\h24C5, \h24DF>>,
     <<\h24C6, \h24E0>>, <<\h24C7, \h24E1>>, <<\h24C8, \h24E2>>,
     <<\h24C9, \h24E3>>, <<\h24CA, \h24E4>>, <<\h24CB, \h24E5>>,
     <<\h24CC, \h24E6>>, <<\h24CD, \h24E7>>, <<\h24CE, \h24E8>>,
     <<\h24CF, \h24E9>>, <<\h2C00, \h2C30>>, <<\h2C01, \h2C31>>,
     <<\h2C02, \h2C32>>, <<\h2C03, \h2C33>>, <<\h2C04, \h2C34>>,
     <<\h2C05, \h2C35>>, <<\h2C06, \h2C36>>, <<\h2C07, \h2C37>>,
     <<\h2C08, \h2C38>>, <<\h2C09, \h2C39>>, <<\h2C0A, \h2C3A>>,
     <<\h2C0B, \h2C3B>>, <<\h2C0C, \h2C3C>>, <<\h2C0D, \h2C3D>>,
     <<\h2C0E, \h2C3E>>, <<\h2C0F, \h2C3F>>, <<\h2C10, \h2C40>>,
     <<\h2C11, \h2C41>>, <<\h2C12, \h2C42>>, <<\h2C13, \h2C43>>,
     <<\h2C14, \h2C44>>, <<\h2C15, \h2C45>>, <<\h2C16, \h2C46>>,
     <<\h2C17, \h2C47>>, <<\h2C18, \h2C48>>, <<\h2C19, \h2C49>>,
     <<\h2C1A, \h2C4A>>, <<\h2C1B, \h2C4B>>, <<\h2C1C, \h2C4C>>,
     <<\h2C1D, \h2C4D>>, <<\h2C1E, \h2C4E>>, <<\h2C1F, \h2C4F>>,
     <<\h2C20, \h2C50>>, <<\h2C21, \h2C51>>, <<\h2C22, \h2C52>>,
     <<\h2C23, \h2C53>>, <<\h2C24, \h2C54>>, <<\h2C25, \h2C55>>,
     <<\h2C26, \h2C56>>, <<\h2C27, \h2C57>>, <<\h2C28, \h2C58>>,
     <<\h2C29, \h2C59>>, <<\h2C2A, \h2C5A>>, <<\h2C2B, \h2C5B>>,
     <<\h2C2C, \h2C5C>>, <<\h2C2D, \h2C5D>>, <<\h2C2E, \h2C5E>>,
     <<\h2C2F, \h2C5F>>, <<\h2C60, \h2C61>>, <<\h2C62, \h026B>>,
     <<\h2C63, \h1D7D>>, <<\h2C64, \h027D>>, <<\h2C67, \h2C68>>,
     <<\h2C69, \h2C6A>>, <<\h2C6B, \h2C6C>>, <<\h2C6D, \h0251>>,
     <<\h2C6E, \h0271>>, <<\h2C6F, \h0250>>, <<\h2C70, \h0252>>,
     <<\h2C72, \h2C73>>, <<\h2C75, \h2C76>>, <<\h2C7E, \h023F>>,
     <<\h2C7F, \h0240>>, <<\h2C80, \h2C81>>, <<\h2C82, \h2C83>>,
     <<\h2C84, \h2C85>>, <<\h2C86, \h2C87>>, <<\h2C88, \h2C89>>,
     <<\h2C8A, \h2C8B>>, <<\h2C8C, \h2C8D>>, <<\h2C8E, \h2C8F>>,
     <<\h2C90, \h2C91>>, <<\h2C92, \h2C93>>, <<\h2C94, \h2C95>>,
     <<\h2C96, \h2C97>>, <<\h2C98, \h2C99>>, <<\h2C9A, \h2C9B>>,
     <<\h2C9C, \h2C9D>>, <<\h2C9E, \h2C9F>>, <<\h2CA0, \h2CA1>>,
     <<\h2CA2, \h2CA3>>, <<\h2CA4, \h2CA5>>, <<\h2CA6, \h2CA7>>,
     <<\h2CA8, \h2CA9>>, <<\h2CAA, \h2CAB>>, <<\h2CAC, \h2CAD>>,
     <<\h2CAE, \h2CAF>>, <<\h2CB0, \h2CB1>>, <<\h2CB2, \h2CB3>>,
     <<\h2CB4, \h2CB5>>, <<\h2CB6, \h2CB7>>, <<\h2CB8, \h2CB9>>,
     <<\h2CBA, \h2CBB>>, <<\h2CBC, \h2CBD>>, <<\h2CBE, \h2CBF>>,
     <<\h2CC0, \h2CC1>>, <<\h2CC2, \h2CC3>>, <<\h2CC4, \h2CC5>>,
     <<\h2CC6, \h2CC7>>, <<\h2CC8, \h2CC9>>, <<\h2CCA, \h2CCB>>,
     <<\h2CCC, \h2CCD>>, <<\h2CCE, \h2CCF>>, <<\h2CD0, \h2CD1>>,
     <<\h2CD2, \h2CD3>>, <<\h2CD4, \h2CD5>>, <<\h2CD6, \h2CD7>>,
     <<\h2CD8, \h2CD9>>, <<\h2CDA, \h2CDB>>, <<\h2CDC, \h2CDD>>,
     <<\h2CDE, \h2CDF>>, <<\h2CE0, \h2CE1>>, <<\h2CE2, \h2CE3>>,
     <<\h2CEB, \h2CEC>>, <<\h2CED, \h2CEE>>, <<\h2CF2, \h2CF3>>,
     <<\hA640, \hA641>>, <<\hA642, \hA643>>, <<\hA644, \hA645>>,
     <<\hA646, \hA647>>, <<\hA648, \hA649>>, <<\hA64A, \hA64B>>,
     <<\hA64C, \hA64D>>, <<\hA64E, \hA64F>>, <<\hA650, \hA651>>,
     <<\hA652, \hA653>>, <<\hA654, \hA655>>, <<\hA656, \hA657>>,
     <<\hA658, \hA659>>, <<\hA65A, \hA65B>>, <<\hA65C, \hA65D>>,
     <<\hA65E, \hA65F>>, <<\hA660, \hA661>>, <<\hA662, \hA663>>,
     <<\hA664, \hA665>>, <<\hA666, \hA667>>, <<\hA668, \hA669>>,
     <<\hA66A, \hA66B>>, <<\hA66C, \hA66D>>, <<\hA680, \hA681>>,
     <<\hA682, \hA683>>, <<\hA684, \hA685>>, <<\hA686, \hA687>>,
     <<\hA688, \hA689>>, <<\hA68A, \hA68B>>, <<\hA68C, \hA68D>>,
     <<\hA68E, \hA68F>>, <<\hA690, \hA691>>, <<\hA692, \hA693>>,
     <<\hA694, \hA695>>, <<\hA696, \hA697>>, <<\hA698, \hA699>>,
     <<\hA69A, \hA69B>>, <<\hA722, \hA723>>, <<\hA724, \hA725>>,
     <<\hA726, \hA727>>, <<\hA728, \hA729>>, <<\hA72A, \hA72B>>,
     <<\hA72C, \hA72D>>, <<\hA72E, \hA72F>>, <<\hA732, \hA733>>,
     <<\hA734, \hA735>>, <<\hA736, \hA737>>, <<\hA738, \hA739>>,
     <<\hA73A, \hA73B>>, <<\hA73C, \hA73D>>, <<\hA73E, \hA73F>>,
     <<\hA740, \hA741>>, <<\hA742, \hA743>>, <<\hA744, \hA745>>,
     <<\hA746, \hA747>>, <<\hA748, \hA749>>, <<\hA74A, \hA74B>>,
     <<\hA74C, \hA74D>>, <<\hA74E, \hA74F>>, <<\hA750, \hA751>>,
     <<\hA752, \hA753>>, <<\hA754, \hA755>>, <<\hA756, \hA757>>,
     <<\hA758, \hA759>>, <<\hA75A, \hA75B>>, <<\hA75C, \hA75D>>,
     <<\hA75E, \hA75F>>, <<\hA760, \hA761>>, <<\hA762, \hA763>>,
     <<\hA764, \hA765>>, <<\hA766, \hA767>>, <<\hA768, \hA769>>,
     <<\hA76A, \hA76B>>, <<\hA76C, \hA76D>>, <<\hA76E, \hA76F>>,
     <<\hA779, \hA77A>>, <<\hA77B, \hA77C>>, <<\hA77D, \h1D79>>,
     <<\hA77E, \hA77F>>, <<\hA780, \hA781>>, <<\hA782, \hA783>>,
     <<\hA784, \hA785>>, <<\hA786, \hA787>>, <<\hA78B, \hA78C>>,
     <<\hA78D, \h0265>>, <<\hA790, \hA791>>, <<\hA792, \hA793>>,
     <<\hA796, \hA797>>, <<\hA798, \hA799>>, <<\hA79A, \hA79B>>,
     <<\hA79C, \hA79D>>, <<\hA79E, \hA79F>>, <<\hA7A0, \hA7A1>>,
     <<\hA7A2, \hA7A3>>, <<\hA7A4, \hA7A5>>, <<\hA7A6, \hA7A7>>,
     <<\hA7A8, \hA7A9>>, <<\hA7AA, \h0266>>, <<\hA7AB, \h025C>>,
     <<\hA7AC, \h0261>>, <<\hA7AD, \h026C>>, <<\hA7AE, \h026A>>,
     <<\hA7B0, \h029E>>, <<\hA7B1, \h0287>>, <<\hA7B2, \h029D>>,
     <<\hA7B3, \hAB53>>, <<\hA7B4, \hA7B5>>, <<\hA7B6, \hA7B7>>,
     <<\hA7B8, \hA7B9>>, <<\hA7BA, \hA7BB>>, <<\hA7BC, \hA7BD>>,
     <<\hA7BE, \hA7BF>>, <<\hA7C0, \hA7C1>>, <<\hA7C2, \hA7C3>>,
     <<\hA7C4, \hA794>>, <<\hA7C5, \h0282>>, <<\hA7C6, \h1D8E>>,
     <<\hA7C7, \hA7C8>>, <<\hA7C9, \hA7CA>>, <<\hA7D0, \hA7D1>>,
     <<\hA7D6, \hA7D7>>, <<\hA7D8, \hA7D9>>, <<\hA7F5, \hA7F6>>,
     <<\hFF21, \hFF41>>, <<\hFF22, \hFF42>>, <<\hFF23, \hFF43>>,
     <<\hFF24, \hFF44>>, <<\hFF25, \hFF45>>, <<\hFF26, \hFF46>>,
     <<\hFF27, \hFF47>>, <<\hFF28, \hFF48>>, <<\hFF29, \hFF49>>,
     <<\hFF2A, \hFF4A>>, <<\hFF2B, \hFF4B>>, <<\hFF2C, \hFF4C>>,
     <<\hFF2D, \hFF4D>>, <<\hFF2E, \hFF4E>>, <<\hFF2F, \hFF4F>>,
     <<\hFF30, \hFF50>>, <<\hFF31, \hFF51>>, <<\hFF32, \hFF52>>,
     <<\hFF33, \hFF53>>, <<\hFF34, \hFF54>>, <<\hFF35, \hFF55>>,
     <<\hFF36, \hFF56>>, <<\hFF37, \hFF57>>, <<\hFF38, \hFF58>>,
     <<\hFF39, \hFF59>>, <<\hFF3A, \hFF5A>>, <<\h10400, \h10428>>,
     <<\h10401, \h10429>>, <<\h10402, \h1042A>>, <<\h10403, \h1042B>>,
     <<\h10404, \h1042C>>, <<\h10405, \h1042D>>, <<\h10406, \h1042E>>,
     <<\h10407, \h1042F>>, <<\h10408, \h10430>>, <<\h10409, \h10431>>,
     <<\h1040A, \h10432>>, <<\h1040B, \h10433>>, <<\h1040C, \h10434>>,
     <<\h1040D, \h10435>>, <<\h1040E, \h10436>>, <<\h1040F, \h10437>>,
     <<\h10410, \h10438>>, <<\h10411, \h10439>>, <<\h10412, \h1043A>>,
     <<\h10413, \h1043B>>, <<\h10414, \h1043C>>, <<\h10415, \h1043D>>,
     <<\h10416, \h1043E>>, <<\h10417, \h1043F>>, <<\h10418, \h10440>>,
     <<\h10419, \h10441>>, <<\h1041A, \h10442>>, <<\h1041B, \h10443>>,
     <<\h1041C, \h10444>>, <<\h1041D, \h10445>>, <<\h1041E, \h10446>>,
     <<\h1041F, \h10447>>, <<\h10420, \h10448>>, <<\h10421, \h10449>>,
     <<\h10422, \h1044A>>, <<\h10423, \h1044B>>, <<\h10424, \h1044C>>,
     <<\h10425, \h1044D>>, <<\h10426, \h1044E>>, <<\h10427, \h1044F>>,
     <<\h104B0, \h104D8>>, <<\h104B1, \h104D9>>, <<\h104B2, \h104DA>>,
     <<\h104B3, \h104DB>>, <<\h104B4, \h104DC>>, <<\h104B5, \h104DD>>,
     <<\h104B6, \h104DE>>, <<\h104B7, \h104DF>>, <<\h104B8, \h104E0>>,
     <<\h104B9, \h104E1>>, <<\h104BA, \h104E2>>, <<\h104BB, \h104E3>>,
     <<\h104BC, \h104E4>>, <<\h104BD, \h104E5>>, <<\h104BE, \h104E6>>,
     <<\h104BF, \h104E7>>, <<\h104C0, \h104E8>>, <<\h104C1, \h104E9>>,
     <<\h104C2, \h104EA>>, <<\h104C3, \h104EB>>, <<\h104C4, \h104EC>>,
     <<\h104C5, \h104ED>>, <<\h104C6, \h104EE>>, <<\h104C7, \h104EF>>,
     <<\h104C8, \h104F0>>, <<\h104C9, \h104F1>>, <<\h104CA, \h104F2>>,
     <<\h104CB, \h104F3>>, <<\h104CC, \h104F4>>, <<\h104CD, \h104F5>>,
     <<\h104CE, \h104F6>>, <<\h104CF, \h104F7>>, <<\h104D0, \h104F8>>,
     <<\h104D1, \h104F9>>, <<\h104D2, \h104FA>>, <<\h104D3, \h104FB>>,
     <<\h10570, \h10597>>, <<\h10571, \h10598>>, <<\h10572, \h10599>>,
     <<\h10573, \h1059A>>, <<\h10574, \h1059B>>, <<\h10575, \h1059C>>,
     <<\h10576, \h1059D>>, <<\h10577, \h1059E>>, <<\h10578, \h1059F>>,
     <<\h10579, \h105A0>>, <<\h1057A, \h105A1>>, <<\h1057C, \h105A3>>,
     <<\h1057D, \h105A4>>, <<\h1057E, \h105A5>>, <<\h1057F, \h105A6>>,
     <<\h10580, \h105A7>>, <<\h10581, \h105A8>>, <<\h10582, \h105A9>>,
     <<\h10583, \h105AA>>, <<\h10584, \h105AB>>, <<\h10585, \h105AC>>,
     <<\h10586, \h105AD>>, <<\h10587, \h105AE>>, <<\h10588, \h105AF>>,
     <<\h10589, \h105B0>>, <<\h1058A, \h105B1>>, <<\h1058C, \h105B3>>,
     <<\h1058D, \h105B4>>, <<\h1058E, \h105B5>>, <<\h1058F, \h105B6>>,
     <<\h10590, \h105B7>>, <<\h10591, \h105B8>>, <<\h10592, \h105B9>>,
     <<\h10594, \h105BB>>, <<\h10595, \h105BC>>, <<\h10C80, \h10CC0>>,
     <<\h10C81, \h10CC1>>, <<\h10C82, \h10CC2>>, <<\h10C83, \h10CC3>>,
     <<\h10C84, \h10CC4>>, <<\h10C85, \h10CC5>>, <<\h10C86, \h10CC6>>,
     <<\h10C87, \h10CC7>>, <<\h10C88, \h10CC8>>, <<\h10C89, \h10CC9>>,
     <<\h10C8A, \h10CCA>>, <<\h10C8B, \h10CCB>>, <<\h10C8C, \h10CCC>>,
     <<\h10C8D, \h10CCD>>, <<\h10C8E, \h10CCE>>, <<\h10C8F, \h10CCF>>,
     <<\h10C90, \h10CD0>>, <<\h10C91, \h10CD1>>, <<\h10C92, \h10CD2>>,
     <<\h10C93, \h10CD3>>, <<\h10C94, \h10CD4>>, <<\h10C95, \h10CD5>>,
     <<\h10C96, \h10CD6>>, <<\h10C97, \h10CD7>>, <<\h10C98, \h10CD8>>,
     <<\h10C99, \h10CD9>>, <<\h10C9A, \h10CDA>>, <<\h10C9B, \h10CDB>>,
     <<\h10C9C, \h10CDC>>, <<\h10C9D, \h10CDD>>, <<\h10C9E, \h10CDE>>,
     <<\h10C9F, \h10CDF>>, <<\h10CA0, \h10CE0>>, <<\h10CA1, \h10CE1>>,
     <<\h10CA2, \h10CE2>>, <<\h10CA3, \h10CE3>>, <<\h10CA4, \h10CE4>>,
     <<\h10CA5, \h10CE5>>, <<\h10CA6, \h10CE6>>, <<\h10CA7, \h10CE7>>,
     <<\h10CA8, \h10CE8>>, <<\h10CA9, \h10CE9>>, <<\h10CAA, \h10CEA>>,
     <<\h10CAB, \h10CEB>>, <<\h10CAC, \h10CEC>>, <<\h10CAD, \h10CED>>,
     <<\h10CAE, \h10CEE>>, <<\h10CAF, \h10CEF>>, <<\h10CB0, \h10CF0>>,
     <<\h10CB1, \h10CF1>>, <<\h10CB2, \h10CF2>>, <<\h118A0, \h118C0>>,
     <<\h118A1, \h118C1>>, <<\h118A2, \h118C2>>, <<\h118A3, \h118C3>>,
     <<\h118A4, \h118C4>>, <<\h118A5, \h118C5>>, <<\h118A6, \h118C6>>,
     <<\h118A7, \h118C7>>, <<\h118A8, \h118C8>>, <<\h118A9, \h118C9>>,
     <<\h118AA, \h118CA>>, <<\h118AB, \h118CB>>, <<\h118AC, \h118CC>>,
     <<\h118AD, \h118CD>>, <<\h118AE, \h118CE>>, <<\h118AF, \h118CF>>,
     <<\h118B0, \h118D0>>, <<\h118B1, \h118D1>>, <<\h118B2, \h118D2>>,
     <<\h118B3, \h118D3>>, <<\h118B4, \h118D4>>, <<\h118B5, \h118D5>>,
     <<\h118B6, \h118D6>>, <<\h118B7, \h118D7>>, <<\h118B8, \h118D8>>,
     <<\h118B9, \h118D9>>, <<\h118BA, \h118DA>>, <<\h118BB, \h118DB>>,
     <<\h118BC, \h118DC>>, <<\h118BD, \h118DD>>, <<\h118BE, \h118DE>>,
     <<\h118BF, \h118DF>>, <<\h16E40, \h16E60>>, <<\h16E41, \h16E61>>,
     <<\h16E42, \h16E62>>, <<\h16E43, \h16E63>>, <<\h16E44, \h16E64>>,
     <<\h16E45, \h16E65>>, <<\h16E46, \h16E66>>, <<\h16E47, \h16E67>>,
     <<\h16E48, \h16E68>>, <<\h16E49, \h16E69>>, <<\h16E4A, \h16E6A>>,
     <<\h16E4B, \h16E6B>>, <<\h16E4C, \h16E6C>>, <<\h16E4D, \h16E6D>>,
     <<\h16E4E, \h16E6E>>, <<\h16E4F, \h16E6F>>, <<\h16E50, \h16E70>>,
     <<\h16E51, \h16E71>>, <<\h16E52, \h16E72>>, <<\h16E53, \h16E73>>,
     <<\h16E54, \h16E74>>, <<\h16E55, \h16E75>>, <<\h16E56, \h16E76>>,
     <<\h16E57, \h16E77>>, <<\h16E58, \h16E78>>, <<\h16E59, \h16E79>>,
     <<\h16E5A, \h16E7A>>, <<\h16E5B, \h16E7B>>, <<\h16E5C, \h16E7C>>,
     <<\h16E5D, \h16E7D>>, <<\h16E5E, \h16E7E>>, <<\h16E5F, \h16E7F>>,
     <<\h1E900, \h1E922>>, <<\h1E901, \h1E923>>, <<\h1E902, \h1E924>>,
     <<\h1E903, \h1E925>>, <<\h1E904, \h1E926>>, <<\h1E905, \h1E927>>,
     <<\h1E906, \h1E928>>, <<\h1E907, \h1E929>>, <<\h1E908, \h1E92A>>,
     <<\h1E909, \h1E92B>>, <<\h1E90A, \h1E92C>>, <<\h1E90B, \h1E92D>>,
     <<\h1E90C, \h1E92E>>, <<\h1E90D, \h1E92F>>, <<\h1E90E, \h1E930>>,
     <<\h1E90F, \h1E931>>, <<\h1E910, \h1E932>>, <<\h1E911, \h1E933>>,
     <<\h1E912, \h1E934>>, <<\h1E913, \h1E935>>, <<\h1E914, \h1E936>>,
     <<\h1E915, \h1E937>>, <<\h1E916, \h1E938>>, <<\h1E917, \h1E939>>,
     <<\h1E918, \h1E93A>>, <<\h1E919, \h1E93B>>, <<\h1E91A, \h1E93C>>,
     <<\h1E91B, \h1E93D>>, <<\h1E91C, \h1E93E>>, <<\h1E91D, \h1E93F>>,
     <<\h1E91E, \h1E940>>, <<\h1E91F, \h1E941>>, <<\h1E920, \h1E942>>,
     <<\h1E921, \h1E943>>}

\* the characters of the regex class \w, as ranges <<first, last>>
WordRanges ==
    {<<\h0030, \h0039>>, <<\h0041, \h005A>>, <<\h005F, \h005F>>,
     <<\h0061, \h007A>>, <<\h00AA, \h00AA>>, <<\h00B2, \h00B3>>,
     <<\h00B5, \h00B5>>, <<\h00B9, \h00BA>>, <<\h00BC, \h00BE>>,
     <<\h00C0, \h00D6>>, <<\h00D8, \h00F6>>, <<\h00F8, \h02C1>>,
     <<\h02C6, \h02D1>>, <<\h02E0, \h02E4>>, <<\h02EC, \h02EC>>,
     <<\h02EE, \h02EE>>, <<\h0370, \h0374>>, <<\h0376, \h0377>>,
     <<\h037A, \h037D>>, <<\h037F, \h037F>>, <<\h0386, \h0386>>,
     <<\h0388, \h038A>>, <<\h038C, \h038C>>, <<\h038E, \h03A1>>,
     <<\h03A3, \h03F5>>, <<\h03F7, \h0481>>, <<\h048A, \h052F>>,
     <<\h0531, \h0556>>, <<\h0559, \h0559>>, <<\h0560, \h0588>>,
     <<\h05D0, \h05EA>>, <<\h05EF, \h05F2>>, <<\h0620, \h064A>>,
     <<\h0660, \h0669>>, <<\h066E, \h066F>>, <<\h0671, \h06D3>>,
     <<\h06D5, \h06D5>>, <<\h06E5, \h06E6>>, <<\h06EE, \h06FC>>,
     <<\h06FF, \h06FF>>, <<\h0710, \h0710>>, <<\h0712, \h072F>>,
     <<\h074D, \h07A5>>, <<\h07B1, \h07B1>>, <<\h07C0, \h07EA>>,
     <<\h07F4, \h07F5>>, <<\h07FA, \h07FA>>, <<\h0800, \h0815>>,
     <<\h081A, \h081A>>, <<\h0824, \h0824>>, <<\h0828, \h0828>>,
     <<\h0840, \h0858>>, <<\h0860, \h086A>>, <<\h0870, \h0887>>,
     <<\h0889, \h088E>>, <<\h08A0, \h08C9>>, <<\h0904, \h0939>>,
     <<\h093D, \h093D>>, <<\h0950, \h0950>>, <<\h0958, \h0961>>,
     <<\h0966, \h096F>>, <<\h0971, \h0980>>, <<\h0985, \h098C>>,
     <<\h098F, \h0990>>, <<\h0993, \h09A8>>, <<\h09AA, \h09B0>>,
     <<\h09B2, \h09B2>>, <<\h09B6, \h09B9>>, <<\h09BD, \h09BD>>,
     <<\h09CE, \h09CE>>, <<\h09DC, \h09DD>>, <<\h09DF, \h09E1>>,
     <<\h09E6, \h09F1>>, <<\h09F4, \h09F9>>, <<\h09FC, \h09FC>>,
     <<\h0A05, \h0A0A>>, <<\h0A0F, \h0A10>>, <<\h0A13, \h0A28>>,
     <<\h0A2A, \h0A30>>, <<\h0A32, \h0A33>>, <<\h0A35, \h0A36>>,
     <<\h0A38, \h0A39>>, <<\h0A59, \h0A5C>>, <<\h0A5E, \h0A5E>>,
     <<\h0A66, \h0A6F>>, <<\h0A72, \h0A74>>, <<\h0A85, \h0A8D>>,
     <<\h0A8F, \h0A91>>, <<\h0A93, \h0AA8>>, <<\h0AAA, \h0AB0>>,
     <<\h0AB2, \h0AB3>>, <<\h0AB5, \h0AB9>>, <<\h0ABD, \h0ABD>>,
     <<\h0AD0, \h0AD0>>, <<\h0AE0, \h0AE1>>, <<\h0AE6, \h0AEF>>,
     <<\h0AF9, \h0AF9>>, <<\h0B05, \h0B0C>>, <<\h0B0F, \h0B10>>,
     <<\h0B13, \h0B28>>, <<\h0B2A, \h0B30>>, <<\h0B32, \h0B33>>,
     <<\h0B35, \h0B39>>, <<\h0B3D, \h0B3D>>, <<\h0B5C, \h0B5D>>,
     <<\h0B5F, \h0B61>>, <<\h0B66, \h0B6F>>, <<\h0B71, \h0B77>>,
     <<\h0B83, \h0B83>>, <<\h0B85, \h0B8A>>, <<\h0B8E, \h0B90>>,
     <<\h0B92, \h0B95>>, <<\h0B99, \h0B9A>>, <<\h0B9C, \h0B9C>>,
     <<\h0B9E, \h0B9F>>, <<\h0BA3, \h0BA4>>, <<\h0BA8, \h0BAA>>,
     <<\h0BAE, \h0BB9>>, <<\h0BD0, \h0BD0>>, <<\h0BE6, \h0BF2>>,
     <<\h0C05, \h0C0C>>, <<\h0C0E, \h0C10>>, <<\h0C12, \h0C28>>,
     <<\h0C2A, \h0C39>>, <<\h0C3D, \h0C3D>>, <<\h0C58, \h0C5A>>,
     <<\h0C5D, \h0C5D>>, <<\h0C60, \h0C61>>, <<\h0C66, \h0C6F>>,
     <<\h0C78, \h0C7E>>, <<\h0C80, \h0C80>>, <<\h0C85, \h0C8C>>,
     <<\h0C8E, \h0C90>>, <<\h0C92, \h0CA8>>, <<\h0CAA, \h0CB3>>,
     <<\h0CB5, \h0CB9>>, <<\h0CBD, \h0CBD>>, <<\h0CDD, \h0CDE>>,
     <<\h0CE0, \h0CE1>>, <<\h0CE6, \h0CEF>>, <<\h0CF1, \h0CF2>>,
     <<\h0D04, \h0D0C>>, <<\h0D0E, \h0D10>>, <<\h0D12, \h0D3A>>,
     <<\h0D3D, \h0D3D>>, <<\h0D4E, \h0D4E>>, <<\h0D54, \h0D56>>,
     <<\h0D58, \h0D61>>, <<\h0D66, \h0D78>>, <<\h0D7A, \h0D7F>>,
     <<\h0D85, \h0D96>>, <<\h0D9A, \h0DB1>>, <<\h0DB3, \h0DBB>>,
     <<\h0DBD, \h0DBD>>, <<\h0DC0, \h0DC6>>, <<\h0DE6, \h0DEF>>,
     <<\h0E01, \h0E30>>, <<\h0E32, \h0E33>>, <<\h0E40, \h0E46>>,
     <<\h0E50, \h0E59>>, <<\h0E81, \h0E82>>, <<\h0E84, \h0E84>>,
     <<\h0E86, \h0E8A>>, <<\h0E8C, \h0EA3>>, <<\h0EA5, \h0EA5>>,
     <<\h0EA7, \h0EB0>>, <<\h0EB2, \h0EB3>>, <<\h0EBD, \h0EBD>>,
     <<\h0EC0, \h0EC4>>, <<\h0EC6, \h0EC6>>, <<\h0ED0, \h0ED9>>,
     <<\h0EDC, \h0EDF>>, <<\h0F00, \h0F00>>, <<\h0F20, \h0F33>>,
     <<\h0F40, \h0F47>>, <<\h0F49, \h0F6C>>, <<\h0F88, \h0F8C>>,
     <<\h1000, \h102A>>, <<\h103F, \h1049>>, <<\h1050, \h1055>>,
     <<\h105A, \h105D>>, <<\h1061, \h1061>>, <<\h1065, \h1066>>,
     <<\h106E, \h1070>>, <<\h1075, \h1081>>, <<\h108E, \h108E>>,
     <<\h1090, \h1099>>, <<\h10A0, \h10C5>>, <<\h10C7, \h10C7>>,
     <<\h10CD, \h10CD>>, <<\h10D0, \h10FA>>, <<\h10FC, \h1248>>,
     <<\h124A, \h124D>>, <<\h1250, \h1256>>, <<\h1258, \h1258>>,
     <<\h125A, \h125D>>, <<\h1260, \h1288>>, <<\h128A, \h128D>>,
     <<\h1290, \h12B0>>, <<\h12B2, \h12B5>>, <<\h12B8, \h12BE>>,
     <<\h12C0, \h12C0>>, <<\h12C2, \h12C5>>, <<\h12C8, \h12D6>>,
     <<\h12D8, \h1310>>, <<\h1312, \h1315>>, <<\h1318, \h135A>>,
     <<\h1369, \h137C>>, <<\h1380, \h138F>>, <<\h13A0, \h13F5>>,
     <<\h13F8, \h13FD>>, <<\h1401, \h166C>>, <<\h166F, \h167F>>,
     <<\h1681, \h169A>>, <<\h16A0, \h16EA>>, <<\h16EE, \h16F8>>,
     <<\h1700, \h1711>>, <<\h171F, \h1731>>, <<\h1740, \h1751>>,
     <<\h1760, \h176C>>, <<\h176E, \h1770>>, <<\h1780, \h17B3>>,
     <<\h17D7, \h17D7>>, <<\h17DC, \h17DC>>, <<\h17E0, \h17E9>>,
     <<\h17F0, \h17F9>>, <<\h1810, \h1819>>, <<\h1820, \h1878>>,
     <<\h1880, \h1884>>, <<\h1887, \h18A8>>, <<\h18AA, \h18AA>>,
     <<\h18B0, \h18F5>>, <<\h1900, \h191E>>, <<\h1946, \h196D>>,
     <<\h1970, \h1974>>, <<\h1980, \h19AB>>, <<\h19B0, \h19C9>>,
     <<\h19D0, \h19DA>>, <<\h1A00, \h1A16>>, <<\h1A20, \h1A54>>,
     <<\h1A80, \h1A89>>, <<\h1A90, \h1A99>>, <<\h1AA7, \h1AA7>>,
     <<\h1B05, \h1B33>>, <<\h1B45, \h1B4C>>, <<\h1B50, \h1B59>>,
     <<\h1B83, \h1BA0>>, <<\h1BAE, \h1BE5>>, <<\h1C00, \h1C23>>,
     <<\h1C40, \h1C49>>, <<\h1C4D, \h1C7D>>, <<\h1C80, \h1C88>>,
     <<\h1C90, \h1CBA>>, <<\h1CBD, \h1CBF>>, <<\h1CE9, \h1CEC>>,
     <<\h1CEE, \h1CF3>>, <<\h1CF5, \h1CF6>>, <<\h1CFA, \h1CFA>>,
     <<\h1D00, \h1DBF>>, <<\h1E00, \h1F15>>, <<\h1F18, \h1F1D>>,
     <<\h1F20, \h1F45>>, <<\h1F48, \h1F4D>>, <<\h1F50, \h1F57>>,
     <<\h1F59, \h1F59>>, <<\h1F5B, \h1F5B>>, <<\h1F5D, \h1F5D>>,
     <<\h1F5F, \h1F7D>>, <<\h1F80, \h1FB4>>, <<\h1FB6, \h1FBC>>,
     <<\h1FBE, \h1FBE>>, <<\h1FC2, \h1FC4>>, <<\h1FC6, \h1FCC>>,
     <<\h1FD0, \h1FD3>>, <<\h1FD6, \h1FDB>>, <<\h1FE0, \h1FEC>>,
     <<\h1FF2, \h1FF4>>, <<\h1FF6, \h1FFC>>, <<\h2070, \h2071>>,
     <<\h2074, \h2079>>, <<\h207F, \h2089>>, <<\h2090, \h209C>>,
     <<\h2102, \h2102>>, <<\h2107, \h2107>>, <<\h210A, \h2113>>,
     <<\h2115, \h2115>>, <<\h2119, \h211D>>, <<\h2124, \h2124>>,
     <<\h2126, \h2126>>, <<\h2128, \h2128>>, <<\h212A, \h212D>>,
     <<\h212F, \h2139>>, <<\h213C, \h213F>>, <<\h2145, \h2149>>,
     <<\h214E, \h214E>>, <<\h2150, \h2189>>, <<\h2460, \h249B>>,
     <<\h24EA, \h24FF>>, <<\h2776, \h2793>>, <<\h2C00, \h2CE4>>,
     <<\h2CEB, \h2CEE>>, <<\h2CF2, \h2CF3>>, <<\h2CFD, \h2CFD>>,
     <<\h2D00, \h2D25>>, <<\h2D27, \h2D27>>, <<\h2D2D, \h2D2D>>,
     <<\h2D30, \h2D67>>, <<\h2D6F, \h2D6F>>, <<\h2D80, \h2D96>>,
     <<\h2DA0, \h2DA6>>, <<\h2DA8, \h2DAE>>, <<\h2DB0, \h2DB6>>,
     <<\h2DB8, \h2DBE>>, <<\h2DC0, \h2DC6>>, <<\h2DC8, \h2DCE>>,
     <<\h2DD0, \h2DD6>>, <<\h2DD8, \h2DDE>>, <<\h2E2F, \h2E2F>>,
     <<\h3005, \h3007>>, <<\h3021, \h3029>>, <<\h3031, \h3035>>,
     <<\h3038, \h303C>>, <<\h3041, \h3096>>, <<\h309D, \h309F>>,
     <<\h30A1, \h30FA>>, <<\h30FC, \h30FF>>, <<\h3105, \h312F>>,
     <<\h3131, \h318E>>, <<\h3192, \h3195>>, <<\h31A0, \h31BF>>,
     <<\h31F0, \h31FF>>, <<\h3220, \h3229>>, <<\h3248, \h324F>>,
     <<\h3251, \h325F>>, <<\h3280, \h3289>>, <<\h32B1, \h32BF>>,
     <<\h3400, \h4DBF>>, <<\h4E00, \hA48C>>, <<\hA4D0, \hA4FD>>,
     <<\hA500, \hA60C>>, <<\hA610, \hA62B>>, <<\hA640, \hA66E>>,
     <<\hA67F, \hA69D>>, <<\hA6A0, \hA6EF>>, <<\hA717, \hA71F>>,
     <<\hA722, \hA788>>, <<\hA78B, \hA7CA>>, <<\hA7D0, \hA7D1>>,
     <<\hA7D3, \hA7D3>>, <<\hA7D5, \hA7D9>>, <<\hA7F2, \hA801>>,
     <<\hA803, \hA805>>, <<\hA807, \hA80A>>, <<\hA80C, \hA822>>,
     <<\hA830, \hA835>>, <<\hA840, \hA873>>, <<\hA882, \hA8B3>>,
     <<\hA8D0, \hA8D9>>, <<\hA8F2, \hA8F7>>, <<\hA8FB, \hA8FB>>,
     <<\hA8FD, \hA8FE>>, <<\hA900, \hA925>>, <<\hA930, \hA946>>,
     <<\hA960, \hA97C>>, <<\hA984, \hA9B2>>, <<\hA9CF, \hA9D9>>,
     <<\hA9E0, \hA9E4>>, <<\hA9E6, \hA9FE>>, <<\hAA00, \hAA28>>,
     <<\hAA40, \hAA42>>, <<\hAA44, \hAA4B>>, <<\hAA50, \hAA59>>,
     <<\hAA60, \hAA76>>, <<\hAA7A, \hAA7A>>, <<\hAA7E, \hAAAF>>,
     <<\hAAB1, \hAAB1>>, <<\hAAB5, \hAAB6>>, <<\hAAB9, \hAABD>>,
     <<\hAAC0, \hAAC0>>, <<\hAAC2, \hAAC2>>, <<\hAADB, \hAADD>>,
     <<\hAAE0, \hAAEA>>, <<\hAAF2, \hAAF4>>, <<\hAB01, \hAB06>>,
     <<\hAB09, \hAB0E>>, <<\hAB11, \hAB16>>, <<\hAB20, \hAB26>>,
     <<\hAB28, \hAB2E>>, <<\hAB30, \hAB5A>>, <<\hAB5C, \hAB69>>,
     <<\hAB70, \hABE2>>, <<\hABF0, \hABF9>>, <<\hAC00, \hD7A3>>,
     <<\hD7B0, \hD7C6>>, <<\hD7CB, \hD7FB>>, <<\hF900, \hFA6D>>,
     <<\hFA70, \hFAD9>>, <<\hFB00, \hFB06>>, <<\hFB13, \hFB17>>,
     <<\hFB1D, \hFB1D>>, <<\hFB1F, \hFB28>>, <<\hFB2A, \hFB36>>,
     <<\hFB38, \hFB3C>>, <<\hFB3E, \hFB3E>>, <<\hFB40, \hFB41>>,
     <<\hFB43, \hFB44>>, <<\hFB46, \hFBB1>>, <<\hFBD3, \hFD3D>>,
     <<\hFD50, \hFD8F>>, <<\hFD92, \hFDC7>>, <<\hFDF0, \hFDFB>>,
     <<\hFE70, \hFE74>>, <<\hFE76, \hFEFC>>, <<\hFF10, \hFF19>>,
     <<\hFF21, \hFF3A>>, <<\hFF41, \hFF5A>>, <<\hFF66, \hFFBE>>,
     <<\hFFC2, \hFFC7>>, <<\hFFCA, \hFFCF>>, <<\hFFD2, \hFFD7>>,
     <<\hFFDA, \hFFDC>>, <<\h10000, \h1000B>>, <<\h1000D, \h10026>>,
     <<\h10028, \h1003A>>, <<\h1003C, \h1003D>>, <<\h1003F, \h1004D>>,
     <<\h10050, \h1005D>>, <<\h10080, \h100FA>>, <<\h10107, \h10133>>,
     <<\h10140, \h10178>>, <<\h1018A, \h1018B>>, <<\h10280, \h1029C>>,
     <<\h102A0, \h102D0>>, <<\h102E1, \h102FB>>, <<\h10300, \h10323>>,
     <<\h1032D, \h1034A>>, <<\h10350, \h10375>>, <<\h10380, \h1039D>>,
     <<\h103A0, \h103C3>>, <<\h103C8, \h103CF>>, <<\h103D1, \h103D5>>,
     <<\h10400, \h1049D>>, <<\h104A0, \h104A9>>, <<\h104B0, \h104D3>>,
     <<\h104D8, \h104FB>>, <<\h10500, \h10527>>, <<\h10530, \h10563>>,
     <<\h10570, \h1057A>>, <<\h1057C, \h1058A>>, <<\h1058C, \h10592>>,
     <<\h10594, \h10595>>, <<\h10597, \h105A1>>, <<\h105A3, \h105B1>>,
     <<\h105B3, \h105B9>>, <<\h105BB, \h105BC>>, <<\h10600, \h10736>>,
     <<\h10740, \h10755>>, <<\h10760, \h10767>>, <<\h10780, \h10785>>,
     <<\h10787, \h107B0>>, <<\h107B2, \h107BA>>, <<\h10800, \h10805>>,
     <<\h10808, \h10808>>, <<\h1080A, \h10835>>, <<\h10837, \h10838>>,
     <<\h1083C, \h1083C>>, <<\h1083F, \h10855>>, <<\h10858, \h10876>>,
     <<\h10879, \h1089E>>, <<\h108A7, \h108AF>>, <<\h108E0, \h108F2>>,
     <<\h108F4, \h108F5>>, <<\h108FB, \h1091B>>, <<\h10920, \h10939>>,
     <<\h10980, \h109B7>>, <<\h109BC, \h109CF>>, <<\h109D2, \h10A00>>,
     <<\h10A10, \h10A13>>, <<\h10A15, \h10A17>>, <<\h10A19, \h10A35>>,
     <<\h10A40, \h10A48>>, <<\h10A60, \h10A7E>>, <<\h10A80, \h10A9F>>,
     <<\h10AC0, \h10AC7>>, <<\h10AC9, \h10AE4>>, <<\h10AEB, \h10AEF>>,
     <<\h10B00, \h10B35>>, <<\h10B40, \h10B55>>, <<\h10B58, \h10B72>>,
     <<\h10B78, \h10B91>>, <<\h10BA9, \h10BAF>>, <<\h10C00, \h10C48>>,
     <<\h10C80, \h10CB2>>, <<\h10CC0, \h10CF2>>, <<\h10CFA, \h10D23>>,
     <<\h10D30, \h10D39>>, <<\h10E60, \h10E7E>>, <<\h10E80, \h10EA9>>,
     <<\h10EB0, \h10EB1>>, <<\h10F00, \h10F27>>, <<\h10F30, \h10F45>>,
     <<\h10F51, \h10F54>>, <<\h10F70, \h10F81>>, <<\h10FB0, \h10FCB>>,
     <<\h10FE0, \h10FF6>>, <<\h11003, \h11037>>, <<\h11052, \h1106F>>,
     <<\h11071, \h11072>>, <<\h11075, \h11075>>, <<\h11083, \h110AF>>,
     <<\h110D0, \h110E8>>, <<\h110F0, \h110F9>>, <<\h11103, \h11126>>,
     <<\h11136, \h1113F>>, <<\h11144, \h11144>>, <<\h11147, \h11147>>,
     <<\h11150, \h11172>>, <<\h11176, \h11176>>, <<\h11183, \h111B2>>,
     <<\h111C1, \h111C4>>, <<\h111D0, \h111DA>>, <<\h111DC, \h111DC>>,
     <<\h111E1, \h111F4>>, <<\h11200, \h11211>>, <<\h11213, \h1122B>>,
     <<\h11280, \h11286>>, <<\h11288, \h11288>>, <<\h1128A, \h1128D>>,
     <<\h1128F, \h1129D>>, <<\h1129F, \h112A8>>, <<\h112B0, \h112DE>>,
     <<\h112F0, \h112F9>>, <<\h11305, \h1130C>>, <<\h1130F, \h11310>>,
     <<\h11313, \h11328>>, <<\h1132A, \h11330>>, <<\h11332, \h11333>>,
     <<\h11335, \h11339>>, <<\h1133D, \h1133D>>, <<\h11350, \h11350>>,
     <<\h1135D, \h11361>>, <<\h11400, \h11434>>, <<\h11447, \h1144A>>,
     <<\h11450, \h11459>>, <<\h1145F, \h11461>>, <<\h11480, \h114AF>>,
     <<\h114C4, \h114C5>>, <<\h114C7, \h114C7>>, <<\h114D0, \h114D9>>,
     <<\h11580, \h115AE>>, <<\h115D8, \h115DB>>, <<\h11600, \h1162F>>,
     <<\h11644, \h11644>>, <<\h11650, \h11659>>, <<\h11680, \h116AA>>,
     <<\h116B8, \h116B8>>, <<\h116C0, \h116C9>>, <<\h11700, \h1171A>>,
     <<\h11730, \h1173B>>, <<\h11740, \h11746>>, <<\h11800, \h1182B>>,
     <<\h118A0, \h118F2>>, <<\h118FF, \h11906>>, <<\h11909, \h11909>>,
     <<\h1190C, \h11913>>, <<\h11915, \h11916>>, <<\h11918, \h1192F>>,
     <<\h1193F, \h1193F>>, <<\h11941, \h11941>>, <<\h11950, \h11959>>,
     <<\h119A0, \h119A7>>, <<\h119AA, \h119D0>>, <<\h119E1, \h119E1>>,
     <<\h119E3, \h119E3>>, <<\h11A00, \h11A00>>, <<\h11A0B, \h11A32>>,
     <<\h11A3A, \h11A3A>>, <<\h11A50, \h11A50>>, <<\h11A5C, \h11A89>>,
     <<\h11A9D, \h11A9D>>, <<\h11AB0, \h11AF8>>, <<\h11C00, \h11C08>>,
     <<\h11C0A, \h11C2E>>, <<\h11C40, \h11C40>>, <<\h11C50, \h11C6C>>,
     <<\h11C72, \h11C8F>>, <<\h11D00, \h11D06>>, <<\h11D08, \h11D09>>,
     <<\h11D0B, \h11D30>>, <<\h11D46, \h11D46>>, <<\h11D50, \h11D59>>,
     <<\h11D60, \h11D65>>, <<\h11D67, \h11D68>>, <<\h11D6A, \h11D89>>,
     <<\h11D98, \h11D98>>, <<\h11DA0, \h11DA9>>, <<\h11EE0, \h11EF2>>,
     <<\h11FB0, \h11FB0>>, <<\h11FC0, \h11FD4>>, <<\h12000, \h12399>>,
     <<\h12400, \h1246E>>, <<\h12480, \h12543>>, <<\h12F90, \h12FF0>>,
     <<\h13000, \h1342E>>, <<\h14400, \h14646>>, <<\h16800, \h16A38>>,
     <<\h16A40, \h16A5E>>, <<\h16A60, \h16A69>>, <<\h16A70, \h16ABE>>,
     <<\h16AC0, \h16AC9>>, <<\h16AD0, \h16AED>>, <<\h16B00, \h16B2F>>,
     <<\h16B40, \h16B43>>, <<\h16B50, \h16B59>>, <<\h16B5B, \h16B61>>,
     <<\h16B63, \h16B77>>, <<\h16B7D, \h16B8F>>, <<\h16E40, \h16E96>>,
     <<\h16F00, \h16F4A>>, <<\h16F50, \h16F50>>, <<\h16F93, \h16F9F>>,
     <<\h16FE0, \h16FE1>>, <<\h16FE3, \h16FE3>>, <<\h17000, \h187F7>>,
     <<\h18800, \h18CD5>>, <<\h18D00, \h18D08>>, <<\h1AFF0, \h1AFF3>>,
     <<\h1AFF5, \h1AFFB>>, <<\h1AFFD, \h1AFFE>>, <<\h1B000, \h1B122>>,
     <<\h1B150, \h1B152>>, <<\h1B164, \h1B167>>, <<\h1B170, \h1B2FB>>,
     <<\h1BC00, \h1BC6A>>, <<\h1BC70, \h1BC7C>>, <<\h1BC80, \h1BC88>>,
     <<\h1BC90, \h1BC99>>, <<\h1D2E0, \h1D2F3>>, <<\h1D360, \h1D378>>,
     <<\h1D400, \h1D454>>, <<\h1D456, \h1D49C>>, <<\h1D49E, \h1D49F>>,
     <<\h1D4A2, \h1D4A2>>, <<\h1D4A5, \h1D4A6>>, <<\h1D4A9, \h1D4AC>>,
     <<\h1D4AE, \h1D4B9>>, <<\h1D4BB, \h1D4BB>>, <<\h1D4BD, \h1D4C3>>,
     <<\h1D4C5, \h1D505>>, <<\h1D507, \h1D50A>>, <<\h1D50D, \h1D514>>,
     <<\h1D516, \h1D51C>>, <<\h1D51E, \h1D539>>, <<\h1D53B, \h1D53E>>,
     <<\h1D540, \h1D544>>, <<\h1D546, \h1D546>>, <<\h1D54A, \h1D550>>,
     <<\h1D552, \h1D6A5>>, <<\h1D6A8, \h1D6C0>>, <<\h1D6C2, \h1D6DA>>,
     <<\h1D6DC, \h1D6FA>>, <<\h1D6FC, \h1D714>>, <<\h1D716, \h1D734>>,
     <<\h1D736, \h1D74E>>, <<\h1D750, \h1D76E>>, <<\h1D770, \h1D788>>,
     <<\h1D78A, \h1D7A8>>, <<\h1D7AA, \h1D7C2>>, <<\h1D7C4, \h1D7CB>>,
     <<\h1D7CE, \h1D7FF>>, <<\h1DF00, \h1DF1E>>, <<\h1E100, \h1E12C>>,
     <<\h1E137, \h1E13D>>, <<\h1E140, \h1E149>>, <<\h1E14E, \h1E14E>>,
     <<\h1E290, \h1E2AD>>, <<\h1E2C0, \h1E2EB>>, <<\h1E2F0, \h1E2F9>>,
     <<\h1E7E0, \h1E7E6>>, <<\h1E7E8, \h1E7EB>>, <<\h1E7ED, \h1E7EE>>,
     <<\h1E7F0, \h1E7FE>>, <<\h1E800, \h1E8C4>>, <<\h1E8C7, \h1E8CF>>,
     <<\h1E900, \h1E943>>, <<\h1E94B, \h1E94B>>, <<\h1E950, \h1E959>>,
     <<\h1EC71, \h1ECAB>>, <<\h1ECAD, \h1ECAF>>, <<\h1ECB1, \h1ECB4>>,
     <<\h1ED01, \h1ED2D>>, <<\h1ED2F, \h1ED3D>>, <<\h1EE00, \h1EE03>>,
     <<\h1EE05, \h1EE1F>>, <<\h1EE21, \h1EE22>>, <<\h1EE24, \h1EE24>>,
     <<\h1EE27, \h1EE27>>, <<\h1EE29, \h1EE32>>, <<\h1EE34, \h1EE37>>,
     <<\h1EE39, \h1EE39>>, <<\h1EE3B, \h1EE3B>>, <<\h1EE42, \h1EE42>>,
     <<\h1EE47, \h1EE47>>, <<\h1EE49, \h1EE49>>, <<\h1EE4B, \h1EE4B>>,
     <<\h1EE4D, \h1EE4F>>, <<\h1EE51, \h1EE52>>, <<\h1EE54, \h1EE54>>,
     <<\h1EE57, \h1EE57>>, <<\h1EE59, \h1EE59>>, <<\h1EE5B, \h1EE5B>>,
     <<\h1EE5D, \h1EE5D>>, <<\h1EE5F, \h1EE5F>>, <<\h1EE61, \h1EE62>>,
     <<\h1EE64, \h1EE64>>, <<\h1EE67, \h1EE6A>>, <<\h1EE6C, \h1EE72>>,
     <<\h1EE74, \h1EE77>>, <<\h1EE79, \h1EE7C>>, <<\h1EE7E, \h1EE7E>>,
     <<\h1EE80, \h1EE89>>, <<\h1EE8B, \h1EE9B>>, <<\h1EEA1, \h1EEA3>>,
     <<\h1EEA5, \h1EEA9>>, <<\h1EEAB, \h1EEBB>>, <<\h1F100, \h1F10C>>,
     <<\h1FBF0, \h1FBF9>>, <<\h20000, \h2A6DF>>, <<\h2A700, \h2B738>>,
     <<\h2B740, \h2B81D>>, <<\h2B820, \h2CEA1>>, <<\h2CEB0, \h2EBE0>>,
     <<\h2F800, \h2FA1D>>, <<\h30000, \h3134A>>}

\* the characters with the Unicode property Cased, as ranges
CasedRanges ==
    {<<\h0041, \h005A>>, <<\h0061, \h007A>>, <<\h00AA, \h00AA>>,
     <<\h00B5, \h00B5>>, <<\h00BA, \h00BA>>, <<\h00C0, \h00D6>>,
     <<\h00D8, \h00F6>>, <<\h00F8, \h01BA>>, <<\h01BC, \h01BF>>,
     <<\h01C4, \h0293>>, <<\h0295, \h02B8>>, <<\h02C0, \h02C1>>,
     <<\h02E0, \h02E4>>, <<\h0345, \h0345>>, <<\h0370, \h0373>>,
     <<\h0376, \h0377>>, <<\h037A, \h037D>>, <<\h037F, \h037F>>,
     <<\h0386, \h0386>>, <<\h0388, \h038A>>, <<\h038C, \h038C>>,
     <<\h038E, \h03A1>>, <<\h03A3, \h03F5>>, <<\h03F7, \h0481>>,
     <<\h048A, \h052F>>, <<\h0531, \h0556>>, <<\h0560, \h0588>>,
     <<\h10A0, \h10C5>>, <<\h10C7, \h10C7>>, <<\h10CD, \h10CD>>,
     <<\h10D0, \h10FA>>, <<\h10FD, \h10FF>>, <<\h13A0, \h13F5>>,
     <<\h13F8, \h13FD>>, <<\h1C80, \h1C88>>, <<\h1C90, \h1CBA>>,
     <<\h1CBD, \h1CBF>>, <<\h1D00, \h1DBF>>, <<\h1E00, \h1F15>>,
     <<\h1F18, \h1F1D>>, <<\h1F20, \h1F45>>, <<\h1F48, \h1F4D>>,
     <<\h1F50, \h1F57>>, <<\h1F59, \h1F59>>, <<\h1F5B, \h1F5B>>,
     <<\h1F5D, \h1F5D>>, <<\h1F5F, \h1F7D>>, <<\h1F80, \h1FB4>>,
     <<\h1FB6, \h1FBC>>, <<\h1FBE, \h1FBE>>, <<\h1FC2, \h1FC4>>,
     <<\h1FC6, \h1FCC>>, <<\h1FD0, \h1FD3>>, <<\h1FD6, \h1FDB>>,
     <<\h1FE0, \h1FEC>>, <<\h1FF2, \h1FF4>>, <<\h1FF6, \h1FFC>>,
     <<\h2071, \h2071>>, <<\h207F, \h207F>>, <<\h2090, \h209C>>,
     <<\h2102, \h2102>>, <<\h2107, \h2107>>, <<\h210A, \h2113>>,
     <<\h2115, \h2115>>, <<\h2119, \h211D>>, <<\h2124, \h2124>>,
     <<\h2126, \h2126>>, <<\h2128, \h2128>>, <<\h212A, \h212D>>,
     <<\h212F, \h2134>>, <<\h2139, \h2139>>, <<\h213C, \h213F>>,
     <<\h2145, \h2149>>, <<\h214E, \h214E>>, <<\h2160, \h217F>>,
     <<\h2183, \h2184>>, <<\h24B6, \h24E9>>, <<\h2C00, \h2CE4>>,
     <<\h2CEB, \h2CEE>>, <<\h2CF2, \h2CF3>>, <<\h2D00, \h2D25>>,
     <<\h2D27, \h2D27>>, <<\h2D2D, \h2D2D>>, <<\hA640, \hA66D>>,
     <<\hA680, \hA69D>>, <<\hA722, \hA787>>, <<\hA78B, \hA78E>>,
     <<\hA790, \hA7CA>>, <<\hA7D0, \hA7D1>>, <<\hA7D3, \hA7D3>>,
     <<\hA7D5, \hA7D9>>, <<\hA7F5, \hA7F6>>, <<\hA7F8, \hA7FA>>,
     <<\hAB30, \hAB5A>>, <<\hAB5C, \hAB68>>, <<\hAB70, \hABBF>>,
     <<\hFB00, \hFB06>>, <<\hFB13, \hFB17>>, <<\hFF21, \hFF3A>>,
     <<\hFF41, \hFF5A>>, <<\h10400, \h1044F>>, <<\h104B0, \h104D3>>,
     <<\h104D8, \h104FB>>, <<\h10570, \h1057A>>, <<\h1057C, \h1058A>>,
     <<\h1058C, \h10592>>, <<\h10594, \h10595>>, <<\h10597, \h105A1>>,
     <<\h105A3, \h105B1>>, <<\h105B3, \h105B9>>, <<\h105BB, \h105BC>>,
     <<\h10780, \h10780>>, <<\h10783, \h10785>>, <<\h10787, \h107B0>>,
     <<\h107B2, \h107BA>>, <<\h10C80, \h10CB2>>, <<\h10CC0, \h10CF2>>,
     <<\h118A0, \h118DF>>, <<\h16E40, \h16E7F>>, <<\h1D400, \h1D454>>,
     <<\h1D456, \h1D49C>>, <<\h1D49E, \h1D49F>>, <<\h1D4A2, \h1D4A2>>,
     <<\h1D4A5, \h1D4A6>>, <<\h1D4A9, \h1D4AC>>, <<\h1D4AE, \h1D4B9>>,
     <<\h1D4BB, \h1D4BB>>, <<\h1D4BD, \h1D4C3>>, <<\h1D4C5, \h1D505>>,
     <<\h1D507, \h1D50A>>, <<\h1D50D, \h1D514>>, <<\h1D516, \h1D51C>>,
     <<\h1D51E, \h1D539>>, <<\h1D53B, \h1D53E>>, <<\h1D540, \h1D544>>,
     <<\h1D546, \h1D546>>, <<\h1D54A, \h1D550>>, <<\h1D552, \h1D6A5>>,
     <<\h1D6A8, \h1D6C0>>, <<\h1D6C2, \h1D6DA>>, <<\h1D6DC, \h1D6FA>>,
     <<\h1D6FC, \h1D714>>, <<\h1D716, \h1D734>>, <<\h1D736, \h1D74E>>,
     <<\h1D750, \h1D76E>>, <<\h1D770, \h1D788>>, <<\h1D78A, \h1D7A8>>,
     <<\h1D7AA, \h1D7C2>>, <<\h1D7C4, \h1D7CB>>, <<\h1DF00, \h1DF09>>,
     <<\h1DF0B, \h1DF1E>>, <<\h1E900, \h1E943>>, <<\h1F130, \h1F149>>,
     <<\h1F150, \h1F169>>, <<\h1F170, \h1F189>>}

\* the characters with the Unicode property Case_Ignorable, as ranges
CaseIgnorableRanges ==
    {<<\h0027, \h0027>>, <<\h002E, \h002E>>, <<\h003A, \h003A>>,
     <<\h005E, \h005E>>, <<\h0060, \h0060>>, <<\h00A8, \h00A8>>,
     <<\h00AD, \h00AD>>, <<\h00AF, \h00AF>>, <<\h00B4, \h00B4>>,
     <<\h00B7, \h00B8>>, <<\h02B0, \h036F>>, <<\h0374, \h0375>>,
     <<\h037A, \h037A>>, <<\h0384, \h0385>>, <<\h0387, \h0387>>,
     <<\h0483, \h0489>>, <<\h0559, \h0559>>, <<\h055F, \h055F>>,
     <<\h0591, \h05BD>>, <<\h05BF, \h05BF>>, <<\h05C1, \h05C2>>,
     <<\h05C4, \h05C5>>, <<\h05C7, \h05C7>>, <<\h05F4, \h05F4>>,
     <<\h0600, \h0605>>, <<\h0610, \h061A>>, <<\h061C, \h061C>>,
     <<\h0640, \h0640>>, <<\h064B, \h065F>>, <<\h0670, \h0670>>,
     <<\h06D6, \h06DD>>, <<\h06DF, \h06E8>>, <<\h06EA, \h06ED>>,
     <<\h070F, \h070F>>, <<\h0711, \h0711>>, <<\h0730, \h074A>>,
     <<\h07A6, \h07B0>>, <<\h07EB, \h07F5>>, <<\h07FA, \h07FA>>,
     <<\h07FD, \h07FD>>, <<\h0816, \h082D>>, <<\h0859, \h085B>>,
     <<\h0888, \h0888>>, <<\h0890, \h0891>>, <<\h0898, \h089F>>,
     <<\h08C9, \h0902>>, <<\h093A, \h093A>>, <<\h093C, \h093C>>,
     <<\h0941, \h0948>>, <<\h094D, \h094D>>, <<\h0951, \h0957>>,
     <<\h0962, \h0963>>, <<\h0971, \h0971>>, <<\h0981, \h0981>>,
     <<\h09BC, \h09BC>>, <<\h09C1, \h09C4>>, <<\h09CD, \h09CD>>,
     <<\h09E2, \h09E3>>, <<\h09FE, \h09FE>>, <<\h0A01, \h0A02>>,
     <<\h0A3C, \h0A3C>>, <<\h0A41, \h0A42>>, <<\h0A47, \h0A48>>,
     <<\h0A4B, \h0A4D>>, <<\h0A51, \h0A51>>, <<\h0A70, \h0A71>>,
     <<\h0A75, \h0A75>>, <<\h0A81, \h0A82>>, <<\h0ABC, \h0ABC>>,
     <<\h0AC1, \h0AC5>>, <<\h0AC7, \h0AC8>>, <<\h0ACD, \h0ACD>>,
     <<\h0AE2, \h0AE3>>, <<\h0AFA, \h0AFF>>, <<\h0B01, \h0B01>>,
     <<\h0B3C, \h0B3C>>, <<\h0B3F, \h0B3F>>, <<\h0B41, \h0B44>>,
     <<\h0B4D, \h0B4D>>, <<\h0B55, \h0B56>>, <<\h0B62, \h0B63>>,
     <<\h0B82, \h0B82>>, <<\h0BC0, \h0BC0>>, <<\h0BCD, \h0BCD>>,
     <<\h0C00, \h0C00>>, <<\h0C04, \h0C04>>, <<\h0C3C, \h0C3C>>,
     <<\h0C3E, \h0C40>>, <<\h0C46, \h0C48>>, <<\h0C4A, \h0C4D>>,
     <<\h0C55, \h0C56>>, <<\h0C62, \h0C63>>, <<\h0C81, \h0C81>>,
     <<\h0CBC, \h0CBC>>, <<\h0CBF, \h0CBF>>, <<\h0CC6, \h0CC6>>,
     <<\h0CCC, \h0CCD>>, <<\h0CE2, \h0CE3>>, <<\h0D00, \h0D01>>,
     <<\h0D3B, \h0D3C>>, <<\h0D41, \h0D44>>, <<\h0D4D, \h0D4D>>,
     <<\h0D62, \h0D63>>, <<\h0D81, \h0D81>>, <<\h0DCA, \h0DCA>>,
     <<\h0DD2, \h0DD4>>, <<\h0DD6, \h0DD6>>, <<\h0E31, \h0E31>>,
     <<\h0E34, \h0E3A>>, <<\h0E46, \h0E4E>>, <<\h0EB1, \h0EB1>>,
     <<\h0EB4, \h0EBC>>, <<\h0EC6, \h0EC6>>, <<\h0EC8, \h0ECD>>,
     <<\h0F18, \h0F19>>, <<\h0F35, \h0F35>>, <<\h0F37, \h0F37>>,
     <<\h0F39, \h0F39>>, <<\h0F71, \h0F7E>>, <<\h0F80, \h0F84>>,
     <<\h0F86, \h0F87>>, <<\h0F8D, \h0F97>>, <<\h0F99, \h0FBC>>,
     <<\h0FC6, \h0FC6>>, <<\h102D, \h1030>>, <<\h1032, \h1037>>,
     <<\h1039, \h103A>>, <<\h103D, \h103E>>, <<\h1058, \h1059>>,
     <<\h105E, \h1060>>, <<\h1071, \h1074>>, <<\h1082, \h1082>>,
     <<\h1085, \h1086>>, <<\h108D, \h108D>>, <<\h109D, \h109D>>,
     <<\h10FC, \h10FC>>, <<\h135D, \h135F>>, <<\h1712, \h1714>>,
     <<\h1732, \h1733>>, <<\h1752, \h1753>>, <<\h1772, \h1773>>,
     <<\h17B4, \h17B5>>, <<\h17B7, \h17BD>>, <<\h17C6, \h17C6>>,
     <<\h17C9, \h17D3>>, <<\h17D7, \h17D7>>, <<\h17DD, \h17DD>>,
     <<\h180B, \h180F>>, <<\h1843, \h1843>>, <<\h1885, \h1886>>,
     <<\h18A9, \h18A9>>, <<\h1920, \h1922>>, <<\h1927, \h1928>>,
     <<\h1932, \h1932>>, <<\h1939, \h193B>>, <<\h1A17, \h1A18>>,
     <<\h1A1B, \h1A1B>>, <<\h1A56, \h1A56>>, <<\h1A58, \h1A5E>>,
     <<\h1A60, \h1A60>>, <<\h1A62, \h1A62>>, <<\h1A65, \h1A6C>>,
     <<\h1A73, \h1A7C>>, <<\h1A7F, \h1A7F>>, <<\h1AA7, \h1AA7>>,
     <<\h1AB0, \h1ACE>>, <<\h1B00, \h1B03>>, <<\h1B34, \h1B34>>,
     <<\h1B36, \h1B3A>>, <<\h1B3C, \h1B3C>>, <<\h1B42, \h1B42>>,
     <<\h1B6B, \h1B73>>, <<\h1B80, \h1B81>>, <<\h1BA2, \h1BA5>>,
     <<\h1BA8, \h1BA9>>, <<\h1BAB, \h1BAD>>, <<\h1BE6, \h1BE6>>,
     <<\h1BE8, \h1BE9>>, <<\h1BED, \h1BED>>, <<\h1BEF, \h1BF1>>,
     <<\h1C2C, \h1C33>>, <<\h1C36, \h1C37>>, <<\h1C78, \h1C7D>>,
     <<\h1CD0, \h1CD2>>, <<\h1CD4, \h1CE0>>, <<\h1CE2, \h1CE8>>,
     <<\h1CED, \h1CED>>, <<\h1CF4, \h1CF4>>, <<\h1CF8, \h1CF9>>,
     <<\h1D2C, \h1D6A>>, <<\h1D78, \h1D78>>, <<\h1D9B, \h1DFF>>,
     <<\h1FBD, \h1FBD>>, <<\h1FBF, \h1FC1>>, <<\h1FCD, \h1FCF>>,
     <<\h1FDD, \h1FDF>>, <<\h1FED, \h1FEF>>, <<\h1FFD, \h1FFE>>,
     <<\h200B, \h200F>>, <<\h2018, \h2019>>, <<\h2024, \h2024>>,
     <<\h2027, \h2027>>, <<\h202A, \h202E>>, <<\h2060, \h2064>>,
     <<\h2066, \h206F>>, <<\h2071, \h2071>>, <<\h207F, \h207F>>,
     <<\h2090, \h209C>>, <<\h20D0, \h20F0>>, <<\h2C7C, \h2C7D>>,
     <<\h2CEF, \h2CF1>>, <<\h2D6F, \h2D6F>>, <<\h2D7F, \h2D7F>>,
     <<\h2DE0, \h2DFF>>, <<\h2E2F, \h2E2F>>, <<\h3005, \h3005>>,
     <<\h302A, \h302D>>, <<\h3031, \h3035>>, <<\h303B, \h303B>>,
     <<\h3099, \h309E>>, <<\h30FC, \h30FE>>, <<\hA015, \hA015>>,
     <<\hA4F8, \hA4FD>>, <<\hA60C, \hA60C>>, <<\hA66F, \hA672>>,
     <<\hA674, \hA67D>>, <<\hA67F, \hA67F>>, <<\hA69C, \hA69F>>,
     <<\hA6F0, \hA6F1>>, <<\hA700, \hA721>>, <<\hA770, \hA770>>,
     <<\hA788, \hA78A>>, <<\hA7F2, \hA7F4>>, <<\hA7F8, \hA7F9>>,
     <<\hA802, \hA802>>, <<\hA806, \hA806>>, <<\hA80B, \hA80B>>,
     <<\hA825, \hA826>>, <<\hA82C, \hA82C>>, <<\hA8C4, \hA8C5>>,
     <<\hA8E0, \hA8F1>>, <<\hA8FF, \hA8FF>>, <<\hA926, \hA92D>>,
     <<\hA947, \hA951>>, <<\hA980, \hA982>>, <<\hA9B3, \hA9B3>>,
     <<\hA9B6, \hA9B9>>, <<\hA9BC, \hA9BD>>, <<\hA9CF, \hA9CF>>,
     <<\hA9E5, \hA9E6>>, <<\hAA29, \hAA2E>>, <<\hAA31, \hAA32>>,
     <<\hAA35, \hAA36>>, <<\hAA43, \hAA43>>, <<\hAA4C, \hAA4C>>,
     <<\hAA70, \hAA70>>, <<\hAA7C, \hAA7C>>, <<\hAAB0, \hAAB0>>,
     <<\hAAB2, \hAAB4>>, <<\hAAB7, \hAAB8>>, <<\hAABE, \hAABF>>,
     <<\hAAC1, \hAAC1>>, <<\hAADD, \hAADD>>, <<\hAAEC, \hAAED>>,
     <<\hAAF3, \hAAF4>>, <<\hAAF6, \hAAF6>>, <<\hAB5B, \hAB5F>>,
     <<\hAB69, \hAB6B>>, <<\hABE5, \hABE5>>, <<\hABE8, \hABE8>>,
     <<\hABED, \hABED>>, <<\hFB1E, \hFB1E>>, <<\hFBB2, \hFBC2>>,
     <<\hFE00, \hFE0F>>, <<\hFE13, \hFE13>>, <<\hFE20, \hFE2F>>,
     <<\hFE52, \hFE52>>, <<\hFE55, \hFE55>>, <<\hFEFF, \hFEFF>>,
     <<\hFF07, \hFF07>>, <<\hFF0E, \hFF0E>>, <<\hFF1A, \hFF1A>>,
     <<\hFF3E, \hFF3E>>, <<\hFF40, \hFF40>>, <<\hFF70, \hFF70>>,
     <<\hFF9E, \hFF9F>>, <<\hFFE3, \hFFE3>>, <<\hFFF9, \hFFFB>>,
     <<\h101FD, \h101FD>>, <<\h102E0, \h102E0>>, <<\h10376, \h1037A>>,
     <<\h10780, \h10785>>, <<\h10787, \h107B0>>, <<\h107B2, \h107BA>>,
     <<\h10A01, \h10A03>>, <<\h10A05, \h10A06>>, <<\h10A0C, \h10A0F>>,
     <<\h10A38, \h10A3A>>, <<\h10A3F, \h10A3F>>, <<\h10AE5, \h10AE6>>,
     <<\h10D24, \h10D27>>, <<\h10EAB, \h10EAC>>, <<\h10F46, \h10F50>>,
     <<\h10F82, \h10F85>>, <<\h11001, \h11001>>, <<\h11038, \h11046>>,
     <<\h11070, \h11070>>, <<\h11073, \h11074>>, <<\h1107F, \h11081>>,
     <<\h110B3, \h110B6>>, <<\h110B9, \h110BA>>, <<\h110BD, \h110BD>>,
     <<\h110C2, \h110C2>>, <<\h110CD, \h110CD>>, <<\h11100, \h11102>>,
     <<\h11127, \h1112B>>, <<\h1112D, \h11134>>, <<\h11173, \h11173>>,
     <<\h11180, \h11181>>, <<\h111B6, \h111BE>>, <<\h111C9, \h111CC>>,
     <<\h111CF, \h111CF>>, <<\h1122F, \h11231>>, <<\h11234, \h11234>>,
     <<\h11236, \h11237>>, <<\h1123E, \h1123E>>, <<\h112DF, \h112DF>>,
     <<\h112E3, \h112EA>>, <<\h11300, \h11301>>, <<\h1133B, \h1133C>>,
     <<\h11340, \h11340>>, <<\h11366, \h1136C>>, <<\h11370, \h11374>>,
     <<\h11438, \h1143F>>, <<\h11442, \h11444>>, <<\h11446, \h11446>>,
     <<\h1145E, \h1145E>>, <<\h114B3, \h114B8>>, <<\h114BA, \h114BA>>,
     <<\h114BF, \h114C0>>, <<\h114C2, \h114C3>>, <<\h115B2, \h115B5>>,
     <<\h115BC, \h115BD>>, <<\h115BF, \h115C0>>, <<\h115DC, \h115DD>>,
     <<\h11633, \h1163A>>, <<\h1163D, \h1163D>>, <<\h1163F, \h11640>>,
     <<\h116AB, \h116AB>>, <<\h116AD, \h116AD>>, <<\h116B0, \h116B5>>,
     <<\h116B7, \h116B7>>, <<\h1171D, \h1171F>>, <<\h11722, \h11725>>,
     <<\h11727, \h1172B>>, <<\h1182F, \h11837>>, <<\h11839, \h1183A>>,
     <<\h1193B, \h1193C>>, <<\h1193E, \h1193E>>, <<\h11943, \h11943>>,
     <<\h119D4, \h119D7>>, <<\h119DA, \h119DB>>, <<\h119E0, \h119E0>>,
     <<\h11A01, \h11A0A>>, <<\h11A33, \h11A38>>, <<\h11A3B, \h11A3E>>,
     <<\h11A47, \h11A47>>, <<\h11A51, \h11A56>>, <<\h11A59, \h11A5B>>,
     <<\h11A8A, \h11A96>>, <<\h11A98, \h11A99>>, <<\h11C30, \h11C36>>,
     <<\h11C38, \h11C3D>>, <<\h11C3F, \h11C3F>>, <<\h11C92, \h11CA7>>,
     <<\h11CAA, \h11CB0>>, <<\h11CB2, \h11CB3>>, <<\h11CB5, \h11CB6>>,
     <<\h11D31, \h11D36>>, <<\h11D3A, \h11D3A>>, <<\h11D3C, \h11D3D>>,
     <<\h11D3F, \h11D45>>, <<\h11D47, \h11D47>>, <<\h11D90, \h11D91>>,
     <<\h11D95, \h11D95>>, <<\h11D97, \h11D97>>, <<\h11EF3, \h11EF4>>,
     <<\h13430, \h13438>>, <<\h16AF0, \h16AF4>>, <<\h16B30, \h16B36>>,
     <<\h16B40, \h16B43>>, <<\h16F4F, \h16F4F>>, <<\h16F8F, \h16F9F>>,
     <<\h16FE0, \h16FE1>>, <<\h16FE3, \h16FE4>>, <<\h1AFF0, \h1AFF3>>,
     <<\h1AFF5, \h1AFFB>>, <<\h1AFFD, \h1AFFE>>, <<\h1BC9D, \h1BC9E>>,
     <<\h1BCA0, \h1BCA3>>, <<\h1CF00, \h1CF2D>>, <<\h1CF30, \h1CF46>>,
     <<\h1D167, \h1D169>>, <<\h1D173, \h1D182>>, <<\h1D185, \h1D18B>>,
     <<\h1D1AA, \h1D1AD>>, <<\h1D242, \h1D244>>, <<\h1DA00, \h1DA36>>,
     <<\h1DA3B, \h1DA6C>>, <<\h1DA75, \h1DA75>>, <<\h1DA84, \h1DA84>>,
     <<\h1DA9B, \h1DA9F>>, <<\h1DAA1, \h1DAAF>>, <<\h1E000, \h1E006>>,
     <<\h1E008, \h1E018>>, <<\h1E01B, \h1E021>>, <<\h1E023, \h1E024>>,
     <<\h1E026, \h1E02A>>, <<\h1E130, \h1E13D>>, <<\h1E2AE, \h1E2AE>>,
     <<\h1E2EC, \h1E2EF>>, <<\h1E8D0, \h1E8D6>>, <<\h1E944, \h1E94B>>,
     <<\h1F3FB, \h1F3FF>>, <<\hE0001, \hE0001>>, <<\hE0020, \hE007F>>,
     <<\hE0100, \hE01EF>>}

\* the characters the patterns and the formats of the code name
Hash == ord("#")
Plus == ord("+")
Minus == ord("-")
Comma == ord(",")
Colon == ord(":")
Semicolon == ord(";")
OpenParen == ord("(")
CloseParen == ord(")")

(***************************************************************************)
(* Strings.                                                                *)
(***************************************************************************)
\* Python's None; no str is equal to it
None == <<-1>>

\* ValueError raised where a str or an int would be returned; no str and no
\* int is equal to it
ValueError == <<-2>>

\* ValueError raised where a list of str would be returned; no such list is
\* equal to it
ListValueError == <<ValueError>>

\* the parts of the state a specification does not use
NoColors ==
    /\ page = None
    /\ args = None
    /\ unique_colors = <<>>
    /\ color_counts = <<>>
    /\ semantic_colors = None
    /\ classified = None
    /\ color_data = None
    /\ brand = None
    /\ color_arg = None
    /\ normalizations = <<>>

NoCache ==
    /\ _image_cache = <<>>
    /\ cache_calls = <<>>
    /\ requests = <<>>

NoProvider ==
    /\ environ = None
    /\ requested_provider = None
    /\ provider = None

NoMain ==
    /\ playwright_available = FALSE
    /\ method = None
    /\ generated_with = <<>>

NoOthers ==
    /\ luminance_value = None
    /\ NoCache
    /\ NoProvider
    /\ NoMain

HexDigits ==
    str(<<"0", "1", "2", "3", "4", "5", "6", "7",
          "8", "9", "a", "b", "c", "d", "e", "f">>)

UpperHex == str(<<"A", "B", "C", "D", "E", "F">>)

\* the regex class \d: the characters int() reads as one decimal digit
DecDigits == UNION {zero..(zero + 9) : zero \in DigitZeros}

\* int(ch) of one decimal digit
DecValue ==
    LET value(zeros) ==
            [ch \in DecDigits |->
                ch - (CHOOSE zero \in zeros : ch \in zero..(zero + 9))]
    IN  value(DigitZeros)

\* the characters c with c in '0123456789abcdef'
LowerHexChars == {HexDigits[i] : i \in 1..16}

IsLowerHexDigit(ch) == ch \in LowerHexChars

\* the regex class [0-9a-fA-F]
HexChars == LowerHexChars \cup {UpperHex[i] : i \in 1..6}

\* int(ch, 16) for every character it accepts: the decimal digits of every
\* script and the letters a-f, A-F
HexValue ==
    LET value(dec) ==
            [ch \in HexChars \cup DOMAIN dec |->
                IF ch \in DOMAIN dec THEN dec[ch]
                ELSE IF ch \in LowerHexChars
                THEN (CHOOSE i \in 1..16 : HexDigits[i] = ch) - 1
                ELSE (CHOOSE i \in 1..6 : UpperHex[i] = ch) + 9]
    IN  value(DecValue)

\* int(a + b, 16) raises no ValueError: two digits, a sign and a digit, or a
\* digit with whitespace on one side
is_int_16(a, b) ==
    LET accepts(digits) ==
            \/ a \in digits /\ b \in digits
            \/ a \in {Plus, Minus} \cup IntWhitespace /\ b \in digits
            \/ a \in digits /\ b \in IntWhitespace
    IN  accepts(DOMAIN HexValue)

\* int(a + b, 16) of two characters
int_16(a, b) ==
    LET value(digit) ==
            IF a \in DOMAIN digit /\ b \in DOMAIN digit
            THEN 16 * digit[a] + digit[b]
            ELSE IF a \in DOMAIN digit THEN digit[a]
            ELSE IF a = Minus THEN -digit[b]
            ELSE digit[b]
    IN  value(HexValue)

Max2(a, b) == IF a >= b THEN a ELSE b
Min2(a, b) == IF a <= b THEN a ELSE b
Max3(a, b, c) == Max2(a, Max2(b, c))
Min3(a, b, c) == Min2(a, Min2(b, c))

\* s[from:] of Python, from counted from 1
Drop(s, from) == SubSeq(s, from, Len(s))

\* the first position from i on, up to the end of s, at which matches
\* holds, or the position after the end of s; matches[k] tells whether the
\* position k of s does
leftmost(s, i, matches) ==
    CHOOSE p \in i..(Len(s) + 1) :
        /\ p > Len(s) \/ matches[p]
        /\ \A k \in i..(p - 1) : ~matches[k]

\* the last position up to i, from the start of s, at which matches holds,
\* or 0
rightmost(s, i, matches) ==
    i - (CHOOSE d \in 0..i :
             /\ d = i \/ matches[i - d]
             /\ \A k \in (i - d + 1)..i : ~matches[k])

\* str.lstrip('#'): every leading '#' is removed
lstrip_hash(s) == Drop(s, leftmost(s, 1, [k \in 1..Len(s) |-> s[k] # Hash]))

\* ''.join(c * 2 for c in s)
RECURSIVE double_chars(_)
double_chars(s) ==
    IF s = <<>> THEN <<>>
    ELSE <<Head(s), Head(s)>> \o double_chars(Tail(s))

(***************************************************************************)
(* utils/color_utils.py                                                    *)
(***************************************************************************)
\* hex_to_rgb: int(x, 16) of the three pairs of characters after the
\* leading '#'s, (0, 0, 0) when there are not 3 or 6 characters or int()
\* raises ValueError for a pair
hex_to_rgb(hex_color) ==
    LET channels(h) ==
            IF Len(h) # 6 THEN <<0, 0, 0>>
            ELSE IF \E i \in {1, 3, 5} : ~is_int_16(h[i], h[i + 1]) THEN <<0, 0, 0>>
            ELSE <<int_16(h[1], h[2]), int_16(h[3], h[4]), int_16(h[5], h[6])>>
        doubled(stripped) ==
            channels(IF Len(stripped) = 3 THEN double_chars(stripped) ELSE stripped)
    IN  doubled(lstrip_hash(hex_color))

\* An int that parse_rgb_string reads has no bound: it is held as the
\* sequence of its hexadecimal digits, the most significant first, and 0 as
\* the empty sequence.
\* the sum of the terms lo..hi of a sequence of numbers
RECURSIVE sum_of(_, _, _)
sum_of(terms, lo, hi) ==
    LET term(k) == IF k <= hi THEN terms[k] ELSE 0
    IN  IF hi - lo < 8
        THEN term(lo) + term(lo + 1) + term(lo + 2) + term(lo + 3)
               + term(lo + 4) + term(lo + 5) + term(lo + 6) + term(lo + 7)
        ELSE sum_of(terms, lo, (lo + hi) \div 2)
               + sum_of(terms, (lo + hi) \div 2 + 1, hi)

\* the int of a number below 2^31
small_int(v) ==
    LET digits(n) == Drop(n, leftmost(n, 1, [k \in 1..Len(n) |-> n[k] # 0]))
    IN  digits([k \in 1..8 |-> (v \div 16^(8 - k)) % 16])

\* columns are the terms of a number, column k a multiple of 16^(k - 1)
\* by less than 2^31: the same number in columns that are each the sum of
\* the k-th hexadecimal digits of eight columns
spread(columns) ==
    LET digit(k, t) ==
            IF k - t \in 1..Len(columns)
            THEN (columns[k - t] \div 16^t) % 16
            ELSE 0
    IN  <<>> \o [k \in 1..(Len(columns) + 7) |->
                    digit(k, 0) + digit(k, 1) + digit(k, 2) + digit(k, 3)
                      + digit(k, 4) + digit(k, 5) + digit(k, 6) + digit(k, 7)]

\* the int of columns: spread three times no column is above 16, and a
\* column takes a carry of 1 when the nearest column below it that is not
\* 15 is 16
int_of_columns(columns) ==
    LET carry(y, k) ==
            IF y[k] = 16 THEN 1 ELSE 0
        into(y, below) == IF below = 0 THEN 0 ELSE carry(y, below)
        digits(y) ==
            [k \in 1..Len(y) |->
                (y[Len(y) + 1 - k]
                   + into(y, rightmost(y, Len(y) - k, [j \in 1..Len(y) |-> y[j] # 15]))) % 16]
        int(n) == Drop(n, leftmost(n, 1, [k \in 1..Len(n) |-> n[k] # 0]))
    IN  int(<<>> \o digits(spread(spread(spread(columns)))))

\* a * b of two ints
multiply(a, b) ==
    LET column(k, lo, hi) ==
            sum_of([i \in lo..hi |->
                       a[Len(a) + 1 - i] * b[Len(b) + 1 - (k + 1 - i)]],
                   lo, hi)
    IN  IF a = <<>> \/ b = <<>> THEN <<>>
        ELSE int_of_columns(
                 [k \in 1..(Len(a) + Len(b) - 1) |->
                     column(k, IF k + 1 - Len(b) > 1 THEN k + 1 - Len(b) ELSE 1,
                            IF k < Len(a) THEN k ELSE Len(a))])

\* a + b of two ints
add(a, b) ==
    LET digit(n, k) == IF k <= Len(n) THEN n[Len(n) + 1 - k] ELSE 0
    IN  IF a = <<>> THEN b
        ELSE IF b = <<>> THEN a
        ELSE int_of_columns(
                 [k \in 1..(IF Len(a) > Len(b) THEN Len(a) ELSE Len(b)) |->
                     digit(a, k) + digit(b, k)])

\* 10 ** k
RECURSIVE ten_to_the(_)
ten_to_the(k) ==
    LET squared(half) == multiply(half, half)
    IN  IF k <= 8 THEN small_int(10^k)
        ELSE multiply(squared(ten_to_the(k \div 2)), ten_to_the(k % 2))

\* the digits of the format spec x, lowercase
to_hex(n) ==
    IF n = <<>> THEN <<HexDigits[1]>>
    ELSE [k \in 1..Len(n) |-> HexDigits[n[k] + 1]]

\* the format spec 02x: at least two digits, zero padded, never truncated
format_02x(n) ==
    IF Len(n) < 2 THEN <<HexDigits[1]>> \o to_hex(n) ELSE to_hex(n)

\* rgb_to_hex
rgb_to_hex(r, g, b) ==
    <<Hash>> \o format_02x(r) \o format_02x(g) \o format_02x(b)

(***************************************************************************)
(* Floats.  Every double luminance computes with is a multiple of          *)
(* 2^-68; the float of value n * 2^-68 is <<h, m, l>> with                  *)
(* n = (h * 2^24 + m) * 2^24 + l and 0 <= m, l < 2^24, h carrying the sign. *)
(***************************************************************************)
FloatBase == 16777216

\* the carries of three digits taken into the digits above them
float_norm(h, m, l) ==
    LET middle == m + (l \div FloatBase)
    IN  <<h + (middle \div FloatBase), middle % FloatBase, l % FloatBase>>

float_neg(a) == float_norm(-a[1], -a[2], -a[3])

\* a < b and a <= b of two floats
float_lt(a, b) ==
    \/ a[1] < b[1]
    \/ a[1] = b[1] /\ a[2] < b[2]
    \/ a[1] = b[1] /\ a[2] = b[2] /\ a[3] < b[3]

float_le(a, b) == ~float_lt(b, a)

\* a non-negative sum rounded to the 53 significant bits of a double, a tie
\* going to the even neighbour: 2^53 units are h = 2^5, so that h < 2^(5 + k)
\* leaves k bits to round away
float_round(a) ==
    LET k == CHOOSE n \in 0..24 : a[1] < 2^(5 + n) /\ (n = 0 \/ a[1] >= 2^(4 + n))
        ulp == 2^k
        rest == a[3] % ulp
        up == 2 * rest > ulp \/ (2 * rest = ulp /\ (a[3] \div ulp) % 2 = 1)
    IN  float_norm(a[1], a[2], a[3] - rest + (IF up THEN ulp ELSE 0))

\* a + b of two floats
float_add(a, b) ==
    LET sum == float_norm(a[1] + b[1], a[2] + b[2], a[3] + b[3])
    IN  IF sum[1] < 0 THEN float_neg(float_round(float_neg(sum)))
        ELSE float_round(sum)

\* the doubles 0.0, 0.5 and 1.0
FloatZero == <<0, 0, 0>>
FloatHalf == <<524288, 0, 0>>
FloatOne == <<1048576, 0, 0>>

\* 0.2126 * gamma(r / 255.0) for r = -15..255, the channel values int(x, 16)
\* gives for two characters
RedLuminance ==
   <<
      <<-1015, 560849, 11946496>>, <<-948, 11708270, 6676128>>, <<-880, 6078475, 1405792>>, <<-812, 448679, 12912640>>,
      <<-745, 11596100, 7642272>>, <<-677, 5966305, 2371936>>, <<-609, 336509, 13878784>>, <<-542, 11483930, 8608416>>,
      <<-474, 5854135, 3338064>>, <<-406, 224339, 14844928>>, <<-339, 11371760, 9574576>>, <<-271, 5741965, 4304208>>,
      <<-203, 112169, 15811072>>, <<-136, 11259590, 10540712>>, <<-68, 5629795, 5270356>>, <<0, 0, 0>>,
      <<67, 11147420, 11506860>>, <<135, 5517625, 6236504>>, <<202, 16665046, 966144>>, <<270, 11035250, 12473008>>,
      <<338, 5405455, 7202640>>, <<405, 16552876, 1932288>>, <<473, 10923080, 13439152>>, <<541, 5293285, 8168800>>,
      <<608, 16440706, 2898432>>, <<676, 10810910, 14405280>>, <<746, 571101, 9605376>>, <<819, 9960554, 3736128>>,
      <<897, 3676350, 3830912>>, <<978, 16309640, 2988928>>, <<1064, 15319932, 8158400>>, <<1155, 1699677, 4805888>>,
      <<1249, 9975439, 16733504>>, <<1348, 7545678, 2550656>>, <<1451, 12122237, 1415488>>, <<1559, 7845174, 6953600>>,
      <<1671, 12392457, 15074880>>, <<1788, 9871872, 1014912>>, <<1910, 1153380, 930176>>, <<2036, 3869786, 6645184>>,
      <<2167, 2085705, 8054016>>, <<2302, 13407000, 4377728>>, <<2443, 5095238, 15082880>>, <<2588, 11508708, 13218048>>,
      <<2738, 16662374, 16382080>>, <<2894, 4559969, 11344256>>, <<3054, 9526055, 4322048>>, <<3219, 15543118, 14957952>>,
      <<3390, 6583588, 12916736>>, <<3566, 164613, 10906112>>, <<3746, 13793959, 4976128>>, <<3932, 14638671, 4091264>>,
      <<4124, 3411449, 2868736>>, <<4320, 14370926, 1032704>>, <<4522, 14658637, 3635712>>, <<4730, 4962568, 1577216>>,
      <<4943, 2740177, 14491648>>, <<5161, 8664195, 8305664>>, <<5385, 6622837, 2012160>>, <<5614, 14051661, 6045184>>,
      <<5849, 14824903, 4171264>>, <<6090, 9587311, 5412608>>, <<6336, 15754328, 7227136>>, <<6589, 403400, 12455680>>,
      <<6846, 14491871, 7062784>>, <<7110, 8307763, 6436864>>, <<7379, 16019307, 9085696>>, <<7655, 4680144, 14835712>>,
      <<7936, 8447194, 12568832>>, <<8223, 11140277, 9899008>>, <<8516, 13351108, 9073152>>, <<8815, 15666206, 794112>>,
      <<9121, 1889795, 13823488>>, <<9432, 6152790, 6273536>>, <<9749, 12249604, 5010432>>, <<10073, 3969909, 10134528>>,
      <<10402, 15430387, 3385344>>, <<10738, 13634314, 13221888>>, <<11080, 15912175, 4630528>>, <<11429, 6035669, 15787520>>,
      <<11784, 1326672, 7285248>>, <<12145, 2325667, 13556224>>, <<12512, 9569052, 11523584>>, <<12886, 6812000, 12005376>>,
      <<13266, 11360189, 6736896>>, <<13653, 6961012, 7839744>>, <<14046, 10912517, 13754880>>, <<14446, 6954615, 4019712>>,
      <<14852, 12378009, 14829056>>, <<15265, 10915405, 11693568>>, <<15685, 3073218, 13644288>>, <<16111, 6131641, 571392>>,
      <<16544, 3813053, 7671808>>, <<16983, 13390950, 5581824>>, <<17430, 1803917, 3558400>>, <<17883, 3096199, 7781376>>,
      <<18343, 977245, 3517440>>, <<18809, 12707838, 12582912>>, <<19283, 5214072, 8882176>>, <<19763, 12527909, 11767808>>,
      <<20251, 1569505, 5722112>>, <<20745, 6364982, 5970944>>, <<21246, 10605966, 2405376>>, <<21754, 14758494, 649216>>,
      <<22270, 2508627, 10005504>>, <<22792, 7871359, 12529664>>, <<23321, 14527360, 14513152>>, <<23858, 6154667, 13327360>>,
      <<24401, 16760371, 14319616>>, <<24952, 13240145, 14571520>>, <<25510, 12818794, 4293632>>, <<26075, 15941426, 3270656>>,
      <<26648, 6273491, 15316992>>, <<27228, 1032466, 1973248>>, <<27815, 656234, 10063872>>, <<28409, 5580344, 622592>>,
      <<29010, 16238035, 340992>>, <<29619, 16283058, 5535744>>, <<30236, 6144138, 8110080>>, <<30860, 3025004, 9726976>>,
      <<31491, 7349988, 7682048>>, <<32130, 2764054, 3245056>>, <<32776, 6464474, 15982592>>, <<33430, 2091997, 3753984>>,
      <<34091, 6839732, 7405568>>, <<34760, 4344320, 421888>>, <<35436, 11794817, 14221312>>, <<36120, 12823864, 2502656>>,
      <<36812, 7839350, 15351808>>, <<37511, 14024448, 12234752>>, <<38218, 15005983, 2048000>>, <<38933, 11186106, 7104512>>,
      <<39656, 2965105, 2308096>>, <<40386, 7518638, 14278656>>, <<41124, 8466114, 11483136>>, <<41870, 6202357, 5181440>>,
      <<42624, 1120414, 8839168>>, <<43385, 10388794, 7395328>>, <<44155, 842622, 3504128>>, <<44932, 6424172, 6895616>>,
      <<45717, 10742377, 436224>>, <<46510, 14181709, 542720>>, <<47312, 347769, 10833920>>, <<48121, 3176171, 3336192>>,
      <<48938, 6269259, 11300864>>, <<49763, 10004996, 15036416>>, <<50596, 14759762, 6680576>>, <<51438, 4131154, 16156672>>,
      <<52287, 12046873, 14231552>>, <<53145, 5324223, 11972608>>, <<54011, 1110643, 4057088>>, <<54884, 16552073, 7864320>>,
      <<55767, 1684109, 14010368>>, <<56657, 7204177, 15968256>>, <<57555, 16699389, 1742848>>, <<58462, 13755419, 8089600>>,
      <<59377, 15510957, 2648064>>, <<60301, 5548852, 13600768>>, <<61233, 1004998, 3424256>>, <<62173, 2236692, 7053312>>,
      <<63121, 9599871, 14508032>>, <<64078, 6671908, 569344>>, <<65043, 10583269, 1099776>>, <<66017, 4908669, 1077248>>,
      <<66999, 6775945, 3522560>>, <<67989, 16534422, 11194368>>, <<68989, 977711, 4616192>>, <<69996, 10784230, 794624>>,
      <<71012, 12745059, 7901184>>, <<72037, 7204465, 10223616>>, <<73070, 11282696, 466944>>, <<74112, 8544343, 8765440>>,
      <<75162, 16107221, 11362304>>, <<76222, 756296, 4079616>>, <<77289, 13161424, 5726208>>, <<78366, 3327989, 8421376>>,
      <<79451, 5146288, 8933376>>, <<80545, 2173814, 3833856>>, <<81647, 11521345, 15499264>>, <<82758, 16744095, 14798848>>,
      <<83879, 1396151, 9089024>>, <<85007, 16139349, 10174464>>, <<86145, 10971125, 16666624>>, <<87292, 2996685, 10670080>>,
      <<88447, 9320148, 2383872>>, <<89611, 13490125, 5459968>>, <<90784, 15831378, 9867264>>, <<91966, 16667612, 3080192>>,
      <<93157, 16321482, 5681152>>, <<94357, 15114606, 4292608>>, <<95566, 13367570, 16588800>>, <<96784, 11399942, 3256320>>,
      <<98011, 9530272, 12754944>>, <<99247, 8076111, 5492736>>, <<100492, 7354010, 11423744>>, <<101746, 7679536, 655360>>,
      <<103009, 9367273, 3784704>>, <<104281, 12730836, 12292096>>, <<105563, 1305661, 11436032>>, <<106853, 8957875, 11223040>>,
      <<108153, 2443794, 8695808>>, <<109461, 15627657, 15544320>>, <<110779, 15263909, 102400>>, <<112107, 1660497, 12443648>>,
      <<113443, 8678888, 5570560>>, <<114789, 3070770, 7700480>>, <<116144, 1918578, 7483392>>, <<117508, 5526634, 5574656>>,
      <<118881, 14198370, 14450688>>, <<120264, 11459122, 6234112>>, <<121656, 14387779, 10256384>>, <<123058, 6507932, 7770112>>,
      <<124469, 4896740, 9728000>>, <<125889, 9853291, 15962112>>, <<127319, 4898609, 6332416>>, <<128758, 7107304, 14622720>>,
      <<130206, 16775937, 16420864>>, <<131665, 645806, 344064>>, <<133132, 9343462, 4472832>>, <<134609, 9608562, 442368>>,
      <<136096, 1734380, 11288576>>, <<137592, 2790603, 10002432>>, <<139097, 13068900, 1261568>>, <<140612, 16082929, 1638400>>,
      <<142137, 12122777, 1597440>>, <<143672, 1477747, 10428416>>, <<145216, 1213582, 16138240>>, <<146769, 11618037, 11304960>>,
      <<148332, 16200884, 1196032>>, <<149905, 15248349, 10723328>>, <<151488, 9045906, 6496256>>, <<153080, 14655492, 2523136>>,
      <<154682, 15583867, 13623296>>, <<156294, 12114270, 8224768>>, <<157916, 4529202, 10878976>>, <<159547, 9887653, 2605056>>,
      <<161188, 11693454, 4841472>>, <<162839, 10226934, 11460608>>, <<164500, 5767708, 3760128>>, <<166170, 15371894, 14901248>>,
      <<167851, 5763261, 8757248>>, <<169541, 10773738, 9830400>>, <<171241, 13902912, 13910016>>, <<172951, 15426895, 15556608>>,
      <<174671, 15621113, 983040>>, <<176401, 14760307, 7372800>>, <<178141, 13118544, 13623296>>, <<179891, 10969217, 14663680>>,
      <<181651, 8585050, 11313152>>, <<183421, 6238102, 16007168>>, <<185201, 4199774, 7397376>>, <<186991, 2740809, 1843200>>,
      <<188791, 2131299, 6406144>>, <<190601, 2640690, 4931584>>, <<192421, 4537783, 10436608>>, <<194251, 8090741, 16015360>>,
      <<196091, 13567092, 12337152>>, <<197942, 4456516, 4268032>>, <<199802, 14579713, 10199040>>, <<201673, 10647898, 10256384>>,
      <<203554, 9703313, 11190272>>, <<205445, 12010369, 10354688>>, <<207347, 1055649, 8880128>>, <<209258, 10656776, 7692288>>,
      <<211180, 7521905, 2916352>>, <<213112, 8690237, 14082048>>, <<215054, 14423163, 11182080>>, <<217007, 8204262, 8888320>>,
      <<218970, 7070956, 9003008>>, <<220943, 11282865, 9732096>>, <<222927, 4321810, 14123008>>
   >>

\* 0.7152 * gamma(g / 255.0) for g = -15..255, the channel values int(x, 16)
\* gives for two characters
GreenLuminance ==
   <<
      <<-3415, 9857095, 10501248>>, <<-3187, 3607550, 9801088>>, <<-2960, 14135221, 9101184>>, <<-2732, 7885676, 8401024>>,
      <<-2504, 1636131, 7700864>>, <<-2277, 12163802, 7000832>>, <<-2049, 5914257, 6300800>>, <<-1822, 16441928, 5600640>>,
      <<-1594, 10192383, 4900544>>, <<-1366, 3942838, 4200512>>, <<-1139, 14470509, 3500416>>, <<-911, 8220964, 2800320>>,
      <<-683, 1971419, 2100256>>, <<-456, 12499090, 1400160>>, <<-228, 6249545, 700080>>, <<0, 0, 0>>,
      <<227, 10527670, 16077136>>, <<455, 4278125, 15377056>>, <<682, 14805796, 14676960>>, <<910, 8556251, 13976896>>,
      <<1138, 2306706, 13276800>>, <<1365, 12834377, 12576704>>, <<1593, 6584832, 11876672>>, <<1821, 335287, 11176576>>,
      <<2048, 10862958, 10476416>>, <<2276, 4613413, 9776384>>, <<2509, 11848662, 6018688>>, <<2757, 2778647, 9269760>>,
      <<3018, 5075780, 7647360>>, <<3293, 5450432, 12075136>>, <<3582, 7313564, 12735616>>, <<3885, 14003842, 5213952>>,
      <<4203, 12014368, 6418432>>, <<4536, 4550724, 5360640>>, <<4883, 11534278, 16598784>>, <<5246, 2496367, 8856064>>,
      <<5623, 14021608, 7783168>>, <<6016, 15532768, 2908928>>, <<6425, 9956458, 6064640>>, <<6850, 170933, 8670720>>,
      <<7290, 5785380, 15919616>>, <<7746, 12810206, 301312>>, <<8219, 7213269, 7762944>>, <<8708, 8476008, 4188160>>,
      <<9214, 2486154, 1732096>>, <<9736, 8648082, 12814848>>, <<10275, 12775346, 1060864>>, <<10832, 646418, 1107968>>,
      <<11405, 8337581, 13228032>>, <<11996, 4783586, 6038016>>, <<12604, 9219263, 15460864>>, <<13230, 7294495, 867840>>,
      <<13874, 1406847, 1048064>>, <<14535, 10702513, 1848320>>, <<15215, 3968339, 12025344>>, <<15913, 295969, 16306176>>,
      <<16629, 1973785, 6973440>>, <<17363, 11264889, 5607424>>, <<18116, 13630621, 16569344>>, <<18888, 11285690, 1175552>>,
      <<19679, 6421616, 8854528>>, <<20489, 1207376, 11515904>>, <<21317, 14567222, 8245248>>, <<22165, 15072400, 8819712>>,
      <<23033, 4827789, 5782528>>, <<23920, 2695217, 9295872>>, <<24826, 10739543, 16027648>>, <<25752, 14229148, 16510976>>,
      <<26698, 15190838, 9799680>>, <<27664, 15633081, 9704448>>, <<28651, 769229, 8884224>>, <<29657, 6126800, 144384>>,
      <<30684, 107368, 2310144>>, <<31731, 1427467, 3473408>>, <<32798, 12010099, 2129920>>, <<33887, 207879, 6930432>>,
      <<34996, 1466681, 6227968>>, <<36126, 885460, 1611776>>, <<37277, 325440, 14692352>>, <<38449, 1633216, 9041920>>,
      <<39642, 6641050, 4462592>>, <<40857, 389952, 5828608>>, <<42093, 1461611, 5730304>>, <<43350, 11647020, 1181696>>,
      <<44629, 15946740, 14266368>>, <<45930, 16125594, 5822464>>, <<47253, 13935692, 6940672>>, <<48598, 11116679, 4288512>>,
      <<49965, 9395965, 4128768>>, <<51354, 10488953, 11700224>>, <<52765, 16099260, 14774272>>, <<54199, 11141713, 9510912>>,
      <<55655, 14074204, 5920768>>, <<57134, 9789029, 294912>>, <<58635, 16721946, 2402304>>, <<60160, 2966287, 3936256>>,
      <<61707, 3713653, 8880128>>, <<63277, 3813583, 12136448>>, <<64870, 4882592, 13211648>>, <<66486, 8527126, 1171456>>,
      <<68125, 16343724, 14258176>>, <<69788, 13141971, 8642560>>, <<71475, 499078, 8687616>>, <<73184, 13537257, 4468736>>,
      <<74918, 3483355, 1507328>>, <<76675, 5441160, 7045120>>, <<78456, 4173816, 5259264>>, <<80261, 1212822, 7675904>>,
      <<82089, 14858169, 12705792>>, <<83942, 13069607, 10743808>>, <<85819, 14130068, 2887680>>, <<87721, 2759711, 1765376>>,
      <<89646, 14002125, 15872000>>, <<91596, 15783939, 2514944>>, <<93571, 9578226, 8884224>>, <<95570, 13627410, 16265216>>,
      <<97594, 12611725, 8925184>>, <<99643, 7980970, 593920>>, <<101717, 1177401, 3051520>>, <<103815, 10413052, 5382144>>,
      <<105939, 3560970, 15138816>>, <<108087, 15595829, 11878400>>, <<110261, 14376295, 15360000>>, <<112461, 1308422, 1228800>>,
      <<114685, 11345739, 458752>>, <<116935, 12326050, 14831616>>, <<119211, 5634820, 802816>>, <<121512, 9428038, 6746112>>,
      <<123839, 8300664, 11362304>>, <<126192, 3618356, 1069056>>, <<128570, 13517550, 1925120>>, <<130975, 5796680, 16699392>>,
      <<133405, 15356770, 1859584>>, <<135862, 9983775, 2932736>>, <<138345, 7789177, 12378112>>, <<140854, 10101193, 4186112>>,
      <<143390, 1464843, 11091968>>, <<145951, 16750892, 10674176>>, <<148540, 6938187, 6275072>>, <<151155, 6885887, 2088960>>,
      <<153797, 1115802, 6545408>>, <<156465, 7698540, 14508032>>, <<159160, 11144708, 2539520>>, <<161882, 12736619, 4571136>>,
      <<164631, 13751145, 278528>>, <<167407, 15459773, 2424832>>, <<170211, 2351452, 8011776>>, <<173041, 9241515, 15507456>>,
      <<175899, 3831226, 6987776>>, <<178784, 4148345, 14401536>>, <<181696, 11438327, 614400>>, <<184636, 10164368, 9404416>>,
      <<187604, 1561900, 14360576>>, <<190599, 3638639, 3448832>>, <<193622, 842987, 15122432>>, <<196672, 11172955, 8192000>>,
      <<199751, 2290125, 2293760>>, <<202857, 8960216, 3194880>>, <<205991, 15612620, 14483456>>, <<209154, 6672100, 2064384>>,
      <<212345, 113262, 13541376>>, <<215563, 13906179, 15712256>>, <<218810, 15684782, 5046272>>, <<222086, 6632985, 4767744>>,
      <<225390, 4707516, 16195584>>, <<228722, 11083529, 9125888>>, <<232083, 10154642, 524288>>, <<235473, 3087414, 5038080>>,
      <<238891, 7821388, 7692288>>, <<242338, 8737481, 9527296>>, <<245814, 6989673, 12681216>>, <<249319, 3727831, 11403264>>,
      <<252853, 97747, 6692864>>, <<256415, 14018392, 11059200>>, <<260007, 13073092, 9723904>>, <<263628, 15172858, 13205504>>,
      <<267279, 4670345, 16416768>>, <<270958, 16245967, 16023552>>, <<274668, 690205, 1835008>>, <<278406, 9453015, 6455296>>,
      <<282174, 10094492, 12451840>>, <<285972, 3725413, 1720320>>, <<289799, 8230051, 13680640>>, <<293656, 7934568, 10633216>>,
      <<297543, 3938688, 3457024>>, <<301459, 14115732, 2392064>>, <<305406, 6003786, 9601024>>, <<309382, 14246245, 5242880>>,
      <<313389, 6374112, 9256960>>, <<317426, 246545, 2195456>>, <<321492, 13719234, 6832128>>, <<325589, 14312787, 11632640>>,
      <<329717, 3098837, 4718592>>, <<333874, 14700069, 1884160>>, <<338062, 16626955, 81920>>, <<342281, 9941076, 9076736>>,
      <<346530, 12477936, 9306112>>, <<350810, 8515338, 4374528>>, <<355120, 15882276, 524288>>, <<359462, 2072881, 13254656>>,
      <<363834, 1686963, 1638400>>, <<368236, 15766732, 14467072>>, <<372670, 11796834, 12107776>>, <<377135, 7590448, 2064384>>,
      <<381631, 4180449, 442368>>, <<386158, 2596650, 5849088>>, <<390716, 3865826, 950272>>, <<395305, 9011734, 16056320>>,
      <<399926, 2277928, 3522560>>, <<404578, 1459420, 8519680>>, <<409261, 7571065, 32768>>, <<413976, 4847575, 15499264>>,
      <<418722, 11075198, 15253504>>, <<423500, 10482869, 1490944>>, <<428310, 4073880, 14467072>>, <<433151, 9625909, 7471104>>,
      <<438024, 11359384, 1933312>>, <<442929, 10269157, 3866624>>, <<447866, 7347308, 16482304>>, <<452835, 3583167, 14958592>>,
      <<457835, 16740547, 1261568>>, <<462868, 14248900, 4521984>>, <<467933, 13866637, 9863168>>, <<473030, 16572281, 1589248>>,
      <<478160, 6564484, 1769472>>, <<483322, 1593698, 4669440>>, <<488516, 2630544, 8306688>>, <<493742, 10643047, 8339456>>,
      <<499001, 9819438, 5488640>>, <<504293, 1122604, 9338880>>, <<509617, 2290108, 4866048>>, <<514973, 14279771, 16596992>>,
      <<520363, 4492480, 983040>>, <<525785, 7435492, 4718592>>, <<531240, 7281949, 294912>>, <<536728, 4979752, 3670016>>,
      <<542249, 1474366, 4620288>>, <<547802, 14486050, 10780672>>, <<553389, 11401012, 5373952>>, <<559009, 9934718, 2097152>>,
      <<564662, 11023046, 12976128>>, <<570348, 15599520, 14123008>>, <<576068, 7818106, 8060928>>, <<581821, 5384877, 491520>>,
      <<587607, 9226380, 6881280>>, <<593427, 3489654, 6324224>>, <<599280, 5873889, 10321920>>, <<605167, 521580, 10977280>>,
      <<611087, 5127404, 10682368>>, <<617041, 3829371, 15728640>>, <<623028, 14317704, 10092544>>, <<629050, 3948770, 11370496>>,
      <<635105, 7185610, 5898240>>, <<641194, 8157437, 16154624>>, <<647317, 7768519, 14745600>>, <<653474, 6920972, 3407872>>,
      <<659665, 6514774, 6193152>>, <<665890, 7447782, 9633792>>, <<672149, 10615743, 1441792>>, <<678443, 135089, 7110656>>,
      <<684770, 10451819, 5996544>>, <<691132, 8900995, 14647296>>, <<697528, 13147271, 15335424>>, <<703959, 7298823, 327680>>,
      <<710424, 9016223, 14811136>>, <<716924, 2403596, 12058624>>, <<723458, 5117487, 9306112>>, <<730027, 1258014, 6619136>>,
      <<736630, 8477743, 3866624>>, <<743268, 10872835, 16613376>>, <<749941, 9314710, 5406720>>
   >>

\* 0.0722 * gamma(b / 255.0) for b = -15..255, the channel values int(x, 16)
\* gives for two characters
BlueLuminance ==
   <<
      <<-345, 5240993, 4846240>>, <<-322, 4891593, 12352512>>, <<-299, 4542194, 3081600>>, <<-276, 4192794, 10587872>>,
      <<-253, 3843395, 1316944>>, <<-230, 3493995, 8823232>>, <<-207, 3144595, 16329520>>, <<-184, 2795196, 7058576>>,
      <<-161, 2445796, 14564864>>, <<-138, 2096397, 5293936>>, <<-115, 1746997, 12800224>>, <<-92, 1397598, 3529288>>,
      <<-69, 1048198, 11035576>>, <<-46, 698799, 1764644>>, <<-23, 349399, 9270930>>, <<0, 0, 0>>,
      <<22, 16427816, 7506286>>, <<45, 16078416, 15012572>>, <<68, 15729017, 5741640>>, <<91, 15379617, 13247928>>,
      <<114, 15030218, 3976992>>, <<137, 14680818, 11483280>>, <<160, 14331419, 2212352>>, <<183, 13982019, 9718640>>,
      <<206, 13632620, 447696>>, <<229, 13283220, 7953984>>, <<253, 5986270, 14673064>>, <<278, 5671172, 8813024>>,
      <<304, 11744130, 13927312>>, <<332, 7780004, 8275184>>, <<361, 10900348, 10725216>>, <<392, 4664988, 3163056>>,
      <<424, 6181280, 6803360>>, <<457, 15772831, 3975440>>, <<493, 202613, 6320368>>, <<529, 10113785, 7269952>>,
      <<567, 12257815, 1836640>>, <<607, 6935252, 15306848>>, <<648, 11218758, 9817184>>, <<691, 8621678, 2888032>>,
      <<735, 16207117, 6617760>>, <<782, 702056, 13607968>>, <<829, 12715262, 1144928>>, <<879, 2188078, 6540672>>,
      <<930, 2943966, 5626528>>, <<982, 15248139, 12375296>>, <<1037, 5807706, 10700800>>, <<1093, 8435097, 15922624>>,
      <<1151, 6607680, 8490112>>, <<1211, 576739, 1557248>>, <<1272, 7367587, 16494272>>, <<1335, 10448028, 8002432>>,
      <<1400, 10060096, 14626432>>, <<1467, 6442943, 4470080>>, <<1535, 16610137, 9410240>>, <<1606, 7240890, 16476352>>,
      <<1678, 12120649, 7352000>>, <<1752, 14700658, 16409664>>, <<1828, 15206903, 10216192>>, <<1906, 13862959, 11838400>>,
      <<1986, 10890063, 3783936>>, <<2068, 6507173, 15537664>>, <<2152, 931036, 12871040>>, <<2237, 11153456, 11174400>>,
      <<2325, 3832490, 12767872>>, <<2414, 12733014, 5484544>>, <<2506, 4509044, 7993984>>, <<2599, 12921517, 12945408>>,
      <<2695, 4620609, 14416768>>, <<2792, 13363509, 4024576>>, <<2892, 5796733, 4486016>>, <<2993, 15673898, 7971712>>,
      <<3097, 9638033, 5262720>>, <<3203, 4662129, 6407552>>, <<3311, 940315, 3832320>>, <<3420, 15442324, 13306112>>,
      <<3532, 14804668, 9341056>>, <<3646, 15993963, 7725568>>, <<3763, 2420885, 10979072>>, <<3881, 7826282, 2189056>>,
      <<4001, 15617905, 4888960>>, <<4124, 9202090, 8470528>>, <<4249, 5538216, 11552256>>, <<4376, 4807085, 16277248>>,
      <<4505, 7188166, 7764480>>, <<4636, 12859618, 3261952>>, <<4770, 5221102, 3834624>>, <<4906, 1225453, 165632>>,
      <<5044, 1047053, 16241920>>, <<5184, 4859076, 6891008>>, <<5326, 12833501, 12319744>>, <<5471, 8363926, 16466176>>,
      <<5618, 8397233, 12927488>>, <<5767, 13101960, 10449920>>, <<5919, 5868322, 11924992>>, <<6073, 3639879, 843264>>,
      <<6229, 6581903, 2646528>>, <<6387, 14858617, 3247360>>, <<6548, 11855993, 10229248>>, <<6711, 14513420, 5401088>>,
      <<6877, 6214853, 7088384>>, <<7045, 3897697, 7567360>>, <<7215, 7721173, 4020480>>, <<7388, 1066333, 5823488>>,
      <<7563, 867725, 1630208>>, <<7740, 7281757, 3939328>>, <<7920, 3686714, 3571456>>, <<8102, 7014418, 2079488>>,
      <<8287, 641378, 4815360>>, <<8474, 1497668, 8436224>>, <<8663, 9735291, 16562176>>, <<8855, 8728193, 16688128>>,
      <<9049, 15403922, 2376704>>, <<9246, 13134774, 7362048>>, <<9446, 2069459, 718848>>, <<9647, 15910321, 12348416>>,
      <<9852, 4472845, 2388480>>, <<10059, 1457819, 11554816>>, <<10268, 7010842, 5342720>>, <<10480, 4499542, 16213504>>,
      <<10694, 10845242, 13435904>>, <<10911, 9414100, 4037632>>, <<11131, 348768, 12656128>>, <<11353, 568406, 7508992>>,
      <<11577, 10214253, 7454720>>, <<11804, 12649641, 1168896>>, <<12034, 8014432, 14062592>>, <<12266, 13225033, 4274688>>,
      <<12501, 11642748, 7265280>>, <<12739, 3405442, 8984576>>, <<12979, 5427546, 710656>>, <<13222, 1068415, 14297088>>,
      <<13467, 7241207, 3687936>>, <<13715, 7304017, 8999424>>, <<13966, 1391541, 16005120>>, <<14219, 6415080, 14464512>>,
      <<14475, 5730899, 3649024>>, <<14733, 16249097, 12281344>>, <<14995, 4547539, 15473664>>, <<15259, 4312371, 432128>>,
      <<15525, 15674728, 13168640>>, <<15795, 5210750, 1746432>>, <<16067, 6604873, 9771520>>, <<16342, 3209333, 15526912>>,
      <<16619, 11930248, 4011008>>, <<16899, 16118758, 3495936>>, <<17182, 15902684, 2742272>>, <<17468, 11409315, 642048>>,
      <<17757, 2765414, 3680256>>, <<18048, 6874441, 4948992>>, <<18342, 7084909, 11730944>>, <<18639, 3522040, 4328448>>,
      <<18938, 13087766, 10738688>>, <<19241, 2351876, 11940864>>, <<19546, 4992529, 13438976>>, <<19854, 4355749, 14615552>>,
      <<20165, 564294, 10164224>>, <<20478, 10517660, 6891520>>, <<20795, 783223, 5534720>>, <<21114, 5036755, 14752768>>,
      <<21436, 6621919, 13480960>>, <<21761, 5659134, 12598272>>, <<22089, 2268366, 14688256>>, <<22419, 13346349, 6078464>>,
      <<22753, 5457722, 14752768>>, <<23089, 12275551, 16128000>>, <<23429, 363601, 5355520>>, <<23771, 3394068, 1437696>>,
      <<24116, 4707073, 16634880>>, <<24464, 4419533, 7985152>>, <<24815, 2647941, 12357632>>, <<25168, 16285594, 11956224>>,
      <<25525, 11893729, 164864>>, <<25885, 6364821, 12827648>>, <<26247, 16590946, 7531520>>, <<26613, 9132128, 10388480>>,
      <<26982, 879645, 10182656>>, <<27353, 8724382, 2627584>>, <<27727, 16002402, 133120>>, <<28105, 6049383, 7140352>>,
      <<28485, 12532270, 11372544>>, <<28869, 2008765, 7779328>>, <<29255, 8145058, 4886528>>, <<29644, 14275319, 13534208>>,
      <<30037, 3733352, 1250304>>, <<30432, 10184239, 13660160>>, <<30831, 183841, 9837568>>, <<31232, 7396520, 15754240>>,
      <<31636, 15154637, 8478720>>, <<32044, 6790198, 1014784>>, <<32454, 15966507, 8994816>>, <<32868, 9237659, 16652288>>,
      <<33285, 3489053, 9207808>>, <<33704, 15605745, 4642816>>, <<34127, 12140806, 847872>>, <<34553, 9978619, 6076416>>,
      <<34982, 9226020, 1615872>>, <<35414, 9989513, 4505600>>, <<35849, 12375276, 12232704>>, <<36287, 16489163, 13881344>>,
      <<36729, 5659490, 743424>>, <<37173, 13545899, 9885696>>, <<37621, 6698855, 16132096>>, <<38072, 2000156, 8091648>>,
      <<38525, 16331286, 13223936>>, <<38982, 16241775, 5029888>>, <<39443, 1835275, 10952704>>, <<39906, 6769569, 1687552>>,
      <<40372, 14370486, 14882816>>, <<40842, 7963560, 9850880>>, <<41315, 4428456, 7065600>>, <<41791, 3867329, 9029632>>,
      <<42270, 6382042, 4534272>>, <<42752, 12074166, 6068224>>, <<43238, 4267769, 2813952>>, <<43726, 16618279, 13914112>>,
      <<44218, 15671979, 7028736>>, <<44714, 1529299, 1015808>>, <<45212, 7844822, 444416>>, <<45714, 1163989, 13516800>>,
      <<46218, 15140832, 2506752>>, <<46726, 16320241, 1564672>>, <<47238, 4801268, 15958016>>, <<47752, 14237130, 4894720>>,
      <<48270, 11171907, 14874624>>, <<48791, 12481066, 10690560>>, <<49316, 1485375, 8083456>>, <<49843, 11836989, 4628480>>,
      <<50374, 10078938, 10979328>>, <<50908, 13085643, 14624768>>, <<51446, 4176836, 10383360>>, <<51987, 226425, 13813760>>,
      <<52531, 1330851, 7118848>>, <<53078, 7586302, 2222080>>, <<53629, 2311501, 2793472>>, <<54183, 2379355, 16285696>>,
      <<54740, 7885311, 15360000>>, <<55301, 2147353, 16375808>>, <<55865, 2037656, 6643712>>, <<56432, 7650936, 5533696>>,
      <<57003, 2304455, 7833600>>, <<57577, 2869669, 10772480>>, <<58154, 9440582, 7092224>>, <<58735, 5333746, 11485184>>,
      <<59319, 7419914, 2779136>>, <<59906, 15792389, 104448>>, <<60497, 13767029, 4577280>>, <<61092, 1436680, 7772160>>,
      <<61689, 12448392, 16750592>>, <<62290, 13340127, 11700224>>, <<62895, 4204053, 3948544>>, <<63503, 1909331, 9904128>>,
      <<64114, 6547687, 7888896>>, <<64729, 1433409, 12201984>>, <<65347, 3435000, 12744704>>, <<65968, 12643529, 15003648>>,
      <<66593, 12372634, 12742656>>, <<67222, 2712954, 10760192>>, <<67854, 532131, 13877248>>, <<68489, 5920380, 15699968>>,
      <<69128, 2190490, 3846144>>, <<69770, 6209470, 15495168>>, <<70416, 1289694, 7925760>>, <<71065, 4297757, 14180352>>,
      <<71717, 15322836, 13316096>>, <<72374, 899471, 1687552>>, <<73033, 11448077, 13770752>>, <<73696, 13502792, 8540160>>,
      <<74363, 7151982, 7254016>>, <<75033, 9261031, 13029376>>, <<75707, 3140694, 14012416>>
   >>

\* luminance with the weight of green for every channel
luminance_all_green(hex_color) ==
    LET weighted(rgb, green) ==
            float_add(float_add(green[rgb[1] + 16], green[rgb[2] + 16]),
                      green[rgb[3] + 16])
    IN  weighted(hex_to_rgb(hex_color), GreenLuminance)

\* luminance: 0.2126 * r_lin + 0.7152 * g_lin + 0.0722 * b_lin, added from
\* left to right; the tables start at the channel value -15
luminance(hex_color) ==
    LET weighted(rgb) ==
            float_add(float_add(RedLuminance[rgb[1] + 16],
                                GreenLuminance[rgb[2] + 16]),
                      BlueLuminance[rgb[3] + 16])
    IN  weighted(hex_to_rgb(hex_color))

\* the square of color_distance; a distance d exceeds a limit t exactly
\* when d * d exceeds t * t
color_distance_sq(color1, color2) ==
    LET squares(a, b) ==
            (a[1] - b[1]) * (a[1] - b[1]) + (a[2] - b[2]) * (a[2] - b[2])
              + (a[3] - b[3]) * (a[3] - b[3])
    IN  squares(hex_to_rgb(color1), hex_to_rgb(color2))

\* color_distance(color1, color2) > limit
color_distance_exceeds(color1, color2, limit) ==
    color_distance_sq(color1, color2) > limit * limit

\* default of is_grayscale's tolerance parameter
GrayTolerance == 10

\* is_grayscale with < for <=
is_grayscale_strict(hex_color) ==
    LET close(rgb) ==
            Max3(rgb[1], rgb[2], rgb[3]) - Min3(rgb[1], rgb[2], rgb[3]) < GrayTolerance
    IN  close(hex_to_rgb(hex_color))

\* is_grayscale with the default tolerance
is_grayscale(hex_color) ==
    LET close(rgb) ==
            Max3(rgb[1], rgb[2], rgb[3]) - Min3(rgb[1], rgb[2], rgb[3]) <= GrayTolerance
    IN  close(hex_to_rgb(hex_color))

\* saturation as the exact fraction num / den, den positive
saturation(hex_color) ==
    LET fraction(max_c, min_c) ==
            IF max_c = 0 THEN [num |-> 0, den |-> 1]
            ELSE IF max_c < 0 THEN [num |-> min_c - max_c, den |-> -max_c]
            ELSE [num |-> max_c - min_c, den |-> max_c]
        of(rgb) ==
            fraction(Max3(rgb[1], rgb[2], rgb[3]), Min3(rgb[1], rgb[2], rgb[3]))
    IN  of(hex_to_rgb(hex_color))

\* a < b for two fractions with positive denominators
FracLess(a, b) == a.num * b.den < b.num * a.den

(***************************************************************************)
(* ColorExtractor._classify_colors                                         *)
(***************************************************************************)
\* the doubles of the literals 0.1 and 0.9
VeryDarkBelow == <<104857, 10066329, 10067968>>
VeryLightAbove == <<943718, 6710886, 6717440>>
\* a threshold of a quarter instead of a half
DarkBackgroundBelow_quarter == <<262144, 0, 0>>

\* extract_from_url: a semantic background of luminance below 0.5 is dark
DarkBackgroundBelow == <<524288, 0, 0>>

\* the literals 50 and 30 of the two distance tests
BackgroundDistance == 50
PrimaryDistance == 30

\* counts.get(c, 0)
counts_get(counts, c) == IF c \in DOMAIN counts THEN counts[c] ELSE 0

\* sum(counts.get(c, 0) for c in cs)
RECURSIVE sum_counts(_, _)
sum_counts(cs, counts) ==
    IF cs = <<>> THEN 0
    ELSE counts_get(counts, Head(cs)) + sum_counts(Tail(cs), counts)

\* min_by_luminance taking the greatest luminance
min_by_luminance_max(cs) ==
    LET greatest(key) ==
            cs[CHOOSE i \in 1..Len(cs) :
                  \A j \in 1..Len(cs) : float_le(key[j], key[i])]
    IN  greatest([k \in 1..Len(cs) |-> luminance(cs[k])])

\* min(cs, key=luminance): the first element of least luminance
min_by_luminance(cs) ==
    LET least(key) ==
            cs[CHOOSE i \in 1..Len(cs) :
                  \A j \in 1..Len(cs) :
                     /\ float_le(key[i], key[j])
                     /\ j < i => float_lt(key[i], key[j])]
    IN  least([k \in 1..Len(cs) |-> luminance(cs[k])])

\* max(cs, key=luminance): the first element of greatest luminance
max_by_luminance(cs) ==
    LET greatest(key) ==
            cs[CHOOSE i \in 1..Len(cs) :
                  \A j \in 1..Len(cs) :
                     /\ float_le(key[j], key[i])
                     /\ j < i => float_lt(key[j], key[i])]
    IN  greatest([k \in 1..Len(cs) |-> luminance(cs[k])])

\* max_by_count taking the last element of greatest count
max_by_count_last(cs, counts) ==
    cs[CHOOSE i \in 1..Len(cs) :
          \A j \in 1..Len(cs) :
             /\ counts_get(counts, cs[j]) <= counts_get(counts, cs[i])
             /\ j > i => counts_get(counts, cs[j]) < counts_get(counts, cs[i])]

\* max(cs, key=lambda c: counts.get(c, 0)): the first element of greatest count
max_by_count(cs, counts) ==
    cs[CHOOSE i \in 1..Len(cs) :
          \A j \in 1..Len(cs) :
             /\ counts_get(counts, cs[j]) <= counts_get(counts, cs[i])
             /\ j < i => counts_get(counts, cs[j]) < counts_get(counts, cs[i])]

\* max(cs, key=saturation): the first element of greatest saturation
max_by_saturation(cs) ==
    LET greatest(key) ==
            cs[CHOOSE i \in 1..Len(cs) :
                  \A j \in 1..Len(cs) :
                     /\ ~FracLess(key[i], key[j])
                     /\ j < i => FracLess(key[j], key[i])]
    IN  greatest([k \in 1..Len(cs) |-> saturation(cs[k])])

\* one step of the stable sort: x goes after every element that is not
\* brighter than x
RECURSIVE insert_by_luminance(_, _)
insert_by_luminance(sorted, x) ==
    IF sorted = <<>> THEN <<x>>
    ELSE IF float_le(luminance(Head(sorted)), luminance(x))
         THEN <<Head(sorted)>> \o insert_by_luminance(Tail(sorted), x)
         ELSE <<x>> \o sorted

\* sorted(colors, key=luminance), a stable sort
RECURSIVE sorted_by_lum(_)
sorted_by_lum(colors) ==
    IF colors = <<>> THEN <<>>
    ELSE insert_by_luminance(sorted_by_lum(SubSeq(colors, 1, Len(colors) - 1)),
                             colors[Len(colors)])

dark_colors(colors) == SelectSeq(colors, LAMBDA c : float_lt(luminance(c), VeryDarkBelow))

light_colors(colors) == SelectSeq(colors, LAMBDA c : float_lt(VeryLightAbove, luminance(c)))

\* is_dark_theme with >= for >
is_dark_theme_geq(dark, light, counts) ==
    \/ sum_counts(dark, counts) >= sum_counts(light, counts)
    \/ (dark # <<>> /\ light = <<>>)

\* truth value of: dark_count > light_count or (dark_colors and not light_colors)
is_dark_theme(dark, light, counts) ==
    \/ sum_counts(dark, counts) > sum_counts(light, counts)
    \/ (dark # <<>> /\ light = <<>>)

\* the background of a non-empty corpus
background_color(colors, dark, light, dark_theme) ==
    IF dark_theme /\ dark # <<>>
    THEN min_by_luminance(dark)
    ELSE IF light # <<>>
    THEN max_by_luminance(light)
    ELSE sorted_by_lum(colors)[IF dark_theme THEN Len(colors) ELSE 1]

\* chromatic_colors without the distance to the background
chromatic_colors_any_distance(colors, background) ==
    SelectSeq(colors, LAMBDA c : ~is_grayscale(c))

\* the colours that are not gray and lie further than 50 from the background
chromatic_colors(colors, background) ==
    SelectSeq(colors, LAMBDA c :
        ~is_grayscale(c)
        /\ color_distance_exceeds(c, background, BackgroundDistance))

\* non_bg keeping the background
non_bg_unfiltered(colors, background) == colors

\* the colours of the corpus other than the background
non_bg(colors, background) == SelectSeq(colors, LAMBDA c : c # background)

FallbackPrimary == str(<<"#", "3", "3", "3", "3", "3", "3">>)

\* the default accent equal to the default primary
FallbackAccent_as_primary == str(<<"#", "3", "3", "3", "3", "3", "3">>)

FallbackAccent == str(<<"#", "6", "6", "6", "6", "6", "6">>)
White == str(<<"#", "f", "f", "f", "f", "f", "f">>)
Black == str(<<"#", "0", "0", "0", "0", "0", "0">>)

\* primary_color without the default of line 233: no colour when the
\* background is the only colour
primary_color_no_fallback(colors, counts, background, chromatic) ==
    IF chromatic # <<>>
    THEN max_by_count(chromatic, counts)
    ELSE IF non_bg(colors, background) # <<>>
    THEN max_by_count(non_bg(colors, background), counts)
    ELSE None

\* the primary of _classify_colors (lines 227-233)
primary_color(colors, counts, background, chromatic) ==
    IF chromatic # <<>>
    THEN max_by_count(chromatic, counts)
    ELSE IF non_bg(colors, background) # <<>>
    THEN max_by_count(non_bg(colors, background), counts)
    ELSE FallbackPrimary

\* accent_candidates with >= for > in the distance test
accent_candidates_geq(chromatic, primary) ==
    SelectSeq(chromatic, LAMBDA c :
        c # primary
        /\ color_distance_sq(c, primary) >= PrimaryDistance * PrimaryDistance)

accent_candidates(chromatic, primary) ==
    SelectSeq(chromatic, LAMBDA c :
        c # primary /\ color_distance_exceeds(c, primary, PrimaryDistance))

accent_color(chromatic, primary) ==
    LET chosen(candidates) ==
            IF candidates # <<>> THEN max_by_saturation(candidates) ELSE primary
    IN  chosen(accent_candidates(chromatic, primary))

\* _classify_colors with the text of the light theme for both themes
_classify_colors_text_black(colors, counts) ==
    IF colors = <<>>
    THEN [primary |-> FallbackPrimary, accent |-> FallbackAccent,
          background |-> White, text |-> Black, theme |-> "light"]
    ELSE LET palette(dark_theme, background, primary, accent) ==
                 [primary |-> primary, accent |-> accent,
                  background |-> background,
                  text |-> Black,
                  theme |-> IF dark_theme THEN "dark" ELSE "light"]
             with_primary(dark_theme, background, chromatic, primary) ==
                 palette(dark_theme, background, primary,
                         accent_color(chromatic, primary))
             with_chromatic(dark_theme, background, chromatic) ==
                 with_primary(dark_theme, background, chromatic,
                              primary_color(colors, counts, background, chromatic))
             with_background(dark_theme, background) ==
                 with_chromatic(dark_theme, background,
                                chromatic_colors(colors, background))
             with_theme(dark, light, dark_theme) ==
                 with_background(dark_theme,
                                 background_color(colors, dark, light, dark_theme))
             with_extremes(dark, light) ==
                 with_theme(dark, light, is_dark_theme(dark, light, counts))
         IN  with_extremes(dark_colors(colors), light_colors(colors))

\* ColorExtractor._classify_colors(colors, counts)
_classify_colors(colors, counts) ==
    IF colors = <<>>
    THEN [primary |-> FallbackPrimary, accent |-> FallbackAccent,
          background |-> White, text |-> Black, theme |-> "light"]
    ELSE LET palette(dark_theme, background, primary, accent) ==
                 [primary |-> primary, accent |-> accent,
                  background |-> background,
                  text |-> IF dark_theme THEN White ELSE Black,
                  theme |-> IF dark_theme THEN "dark" ELSE "light"]
             with_primary(dark_theme, background, chromatic, primary) ==
                 palette(dark_theme, background, primary,
                         accent_color(chromatic, primary))
             with_chromatic(dark_theme, background, chromatic) ==
                 with_primary(dark_theme, background, chromatic,
                              primary_color(colors, counts, background, chromatic))
             with_background(dark_theme, background) ==
                 with_chromatic(dark_theme, background,
                                chromatic_colors(colors, background))
             with_theme(dark, light, dark_theme) ==
                 with_background(dark_theme,
                                 background_color(colors, dark, light, dark_theme))
             with_extremes(dark, light) ==
                 with_theme(dark, light, is_dark_theme(dark, light, counts))
         IN  with_extremes(dark_colors(colors), light_colors(colors))

(***************************************************************************)
(* Text scanning: str methods and the regular expressions of the           *)
(* collector, matched the way Python's re matches them.                    *)
(***************************************************************************)
LowerLetters ==
    str(<<"a", "b", "c", "d", "e", "f", "g", "h", "i", "j", "k", "l", "m",
          "n", "o", "p", "q", "r", "s", "t", "u", "v", "w", "x", "y", "z">>)

UpperLetters ==
    str(<<"A", "B", "C", "D", "E", "F", "G", "H", "I", "J", "K", "L", "M",
          "N", "O", "P", "Q", "R", "S", "T", "U", "V", "W", "X", "Y", "Z">>)

\* str.lower() of the characters it changes into one character
LowerOf ==
    LET table(pairs) ==
            [ch \in {p[1] : p \in pairs} |-> (CHOOSE p \in pairs : p[1] = ch)[2]]
    IN  table(LowerPairs)

\* str.lower() of one character other than a capital sigma; I with dot
\* above becomes two characters
lower_char(ch) ==
    LET lowered(table) ==
            IF ch = \h0130 THEN <<ord("i"), \h0307>>
            ELSE IF ch \in DOMAIN table THEN <<table[ch]>>
            ELSE <<ch>>
    IN  lowered(LowerOf)

\* the characters that are cased, and those that case mappings ignore
Cased == UNION {r[1]..r[2] : r \in CasedRanges}

CaseIgnorable == UNION {r[1]..r[2] : r \in CaseIgnorableRanges}

\* the capital sigma at position i of s is a final one: the nearest
\* character before it that is not case-ignorable is cased, and the nearest
\* one after it, if any, is not
final_sigma(s, i) ==
    LET cased_before(j) == j > 0 /\ s[j] \in Cased
        none_after(j) == j > Len(s) \/ s[j] \notin Cased
    IN  /\ cased_before(rightmost(s, i - 1, [k \in 1..Len(s) |-> s[k] \notin CaseIgnorable]))
        /\ none_after(leftmost(s, i + 1, [k \in 1..Len(s) |-> s[k] \notin CaseIgnorable]))

\* the lowercase character of the one at position i of s, which is not
\* U+0130: a capital sigma becomes the final small sigma or the small
\* sigma, any other character its lower_char
lower_at(s, i) ==
    IF s[i] = \h03A3
    THEN (IF final_sigma(s, i) THEN \h03C2 ELSE \h03C3)
    ELSE lower_char(s[i])[1]

\* str.lower() of s from position i on; U+0130 is the one character whose
\* lowercase is two characters
RECURSIVE lower_from(_, _)
lower_from(s, i) ==
    LET upto(dotted) ==
            [k \in 1..(dotted - i) |-> lower_at(s, i + k - 1)]
              \o (IF dotted > Len(s) THEN <<>>
                  ELSE lower_char(\h0130) \o lower_from(s, dotted + 1))
    IN  upto(leftmost(s, i, [k \in 1..Len(s) |-> s[k] = \h0130]))

\* str.lower() leaving every character as it is
lower_identity(s) == s

\* str.lower()
lower(s) == lower_from(s, 1)

\* the regex class \w, which is Unicode-aware
WordChars == UNION {r[1]..r[2] : r \in WordRanges}

\* the regex class [\w-] of a custom-property name
NameChars == WordChars \cup {Minus}

\* the regex class [#\w(),.%\s] of a custom-property value
ValueChars ==
    WordChars \cup Whitespace
      \cup {Hash, OpenParen, CloseParen, Comma, ord("."), ord("%")}

\* the character at position i, or -1, which is no character, past either
\* end of the text
CharAt(s, i) == IF i \in 1..Len(s) THEN s[i] ELSE -1

\* the first position from i on whose character is not in class
skip_class(s, i, class) ==
    IF i > Len(s) THEN i ELSE leftmost(s, i, [k \in 1..Len(s) |-> s[k] \notin class])

\* the characters re.I matches with a lowercase letter besides the letter
\* and its capital
IgnoreCaseAlso ==
    (ord("i") :> {\h0130, \h0131}) @@ (ord("k") :> {\h212A})
      @@ (ord("s") :> {\h017F})

\* the character ch matches the pattern character c, a lowercase letter or
\* a symbol, under re.I
matches_ignore_case(ch, c) ==
    \/ ch = c
    \/ \E n \in 1..26 : ch = UpperLetters[n] /\ c = LowerLetters[n]
    \/ c \in DOMAIN IgnoreCaseAlso /\ ch \in IgnoreCaseAlso[c]

\* the characters of word occur in s from position i on, letter case ignored
starts_with_at(s, i, word) ==
    /\ i + Len(word) - 1 <= Len(s)
    /\ \A k \in 1..Len(word) : matches_ignore_case(s[i + k - 1], word[k])

\* str.startswith
startswith(s, word) ==
    /\ Len(word) <= Len(s)
    /\ \A k \in 1..Len(word) : s[k] = word[k]

\* str.strip(): whitespace removed at both ends
rstrip(s) ==
    SubSeq(s, 1, rightmost(s, Len(s), [k \in 1..Len(s) |-> s[k] \notin Whitespace]))

strip(s) == rstrip(Drop(s, skip_class(s, 1, Whitespace)))

\* the longest run of digits int() converts: sys.int_info's
\* default_max_str_digits, which the program leaves as it is
MaxStrDigits == 4300

\* the value of a run of decimal digits
RECURSIVE int_value(_)
int_value(digits) ==
    LET shifted(high, low, places) ==
            IF high = <<>> THEN low
            ELSE IF low = <<>> THEN multiply(high, ten_to_the(places))
            ELSE add(multiply(high, ten_to_the(places)), low)
        upper(half) ==
            shifted(int_value(SubSeq(digits, 1, Len(digits) - half)),
                    int_value(SubSeq(digits, Len(digits) - half + 1, Len(digits))),
                    half)
    IN  IF Len(digits) <= 8
        THEN small_int(sum_of([k \in 1..Len(digits) |->
                                  DecValue[digits[k]] * 10^(Len(digits) - k)],
                              1, Len(digits)))
        ELSE upper(Len(digits) \div 2)

\* int() of a run of decimal digits: ValueError when the run is longer
\* than the limit, leading zeros counted
int_of(digits) ==
    IF Len(digits) > MaxStrDigits THEN ValueError ELSE int_value(digits)

\* the result of a failed match
NoMatch == [found |-> FALSE]

\* one \s*(\d+) group starting at i: the digits and the position after them
match_number(s, i) ==
    LET number(from, to) ==
            IF to = from THEN NoMatch
            ELSE [found |-> TRUE, group |-> SubSeq(s, from, to - 1),
                  end |-> to]
        digits(from) == number(from, skip_class(s, from, DecDigits))
    IN  digits(skip_class(s, i, Whitespace))

\* \s*, after a number: the position after the comma, or 0
match_comma(s, i) ==
    LET comma(at) == IF CharAt(s, at) = Comma THEN at + 1 ELSE 0
    IN  comma(skip_class(s, i, Whitespace))

RgbPrefix == str(<<"r", "g", "b">>)

\* rgba?\s*\(\s*(\d+)\s*,\s*(\d+)\s*,\s*(\d+) matched at position i: the
\* three groups and the position after the third
match_rgb_at(s, i) ==
    LET blue(r, g, b) ==
            IF ~b.found THEN NoMatch
            ELSE [found |-> TRUE, r |-> r.group, g |-> g.group, b |-> b.group,
                  end |-> b.end]
        second_comma(r, g, after) ==
            IF after = 0 THEN NoMatch ELSE blue(r, g, match_number(s, after))
        green(r, g) ==
            IF ~g.found THEN NoMatch ELSE second_comma(r, g, match_comma(s, g.end))
        first_comma(r, after) ==
            IF after = 0 THEN NoMatch ELSE green(r, match_number(s, after))
        red(r) ==
            IF ~r.found THEN NoMatch ELSE first_comma(r, match_comma(s, r.end))
        paren(at) ==
            IF CharAt(s, at) # OpenParen THEN NoMatch
            ELSE red(match_number(s, at + 1))
        alpha(letter_a) ==
            paren(skip_class(s, IF CharAt(s, i + 3) = letter_a THEN i + 4 ELSE i + 3,
                             Whitespace))
    IN  IF \E k \in 1..3 : CharAt(s, i + k - 1) # RgbPrefix[k]
        THEN NoMatch
        ELSE alpha(LowerLetters[1])

\* re.search of that pattern: the leftmost match from position i on
search_rgb(s, i) ==
    LET at(p) == IF p > Len(s) THEN NoMatch ELSE match_rgb_at(s, p)
    IN  at(leftmost(s, i, [p \in 1..Len(s) |-> match_rgb_at(s, p).found]))

\* parse_rgb_string: int() of the three groups of the match, from which a
\* ValueError is not caught
parse_rgb_string(rgb_str) ==
    LET hex(r, g, b) ==
            IF r = ValueError \/ g = ValueError \/ b = ValueError
            THEN ValueError
            ELSE rgb_to_hex(r, g, b)
        groups(match) ==
            IF match.found
            THEN hex(int_of(match.r), int_of(match.g), int_of(match.b))
            ELSE None
    IN  groups(search_rgb(rgb_str, 1))

\* normalize_color
normalize_color(color) ==
    LET hex(hex_color) ==
            IF Len(hex_color) = 6 /\ \A k \in 1..6 : IsLowerHexDigit(hex_color[k])
            THEN <<Hash>> \o hex_color
            ELSE None
        doubled(stripped) ==
            hex(IF Len(stripped) = 3 THEN double_chars(stripped) ELSE stripped)
        normalized(c) ==
            IF startswith(c, <<Hash>>) THEN doubled(lstrip_hash(c))
            ELSE IF startswith(c, RgbPrefix) THEN parse_rgb_string(c)
            ELSE None
    IN  normalized(lower(strip(color)))

\* HEX_PATTERN = #([0-9a-fA-F]{3,6})\b matched at position i: the position
\* after the match, or 0.  The digits are followed by a word boundary only
\* if the whole run of hexadecimal digits is 3 to 6 long and no word
\* character follows it.
match_hex_at(s, i) ==
    IF CharAt(s, i) # Hash THEN 0
    ELSE LET bounded(to) ==
                 IF to - (i + 1) \in 3..6 /\ CharAt(s, to) \notin WordChars
                 THEN to ELSE 0
         IN  bounded(skip_class(s, i + 1, HexChars))

\* HEX_PATTERN.findall(css): the digits of every match, left to right
RECURSIVE findall_hex(_, _)
findall_hex(s, i) ==
    LET rest(p, end) == <<SubSeq(s, p + 1, end - 1)>> \o findall_hex(s, end)
        at(p) == IF p > Len(s) THEN <<>> ELSE rest(p, match_hex_at(s, p))
    IN  IF i > Len(s) THEN <<>>
        ELSE at(leftmost(s, i, [p \in 1..Len(s) |-> match_hex_at(s, p) # 0]))

\* the first position from i on that holds ch, or 0
find_char(s, i, ch) ==
    LET at(p) == IF p > Len(s) THEN 0 ELSE p
    IN  IF i > Len(s) THEN 0 ELSE at(leftmost(s, i, [p \in 1..Len(s) |-> s[p] = ch]))

\* RGB_PATTERN = rgba?\s*\(\s*\d+\s*,\s*\d+\s*,\s*\d+[^)]*\) matched at
\* position i: the position after the match, or 0
match_rgb_pattern_at(s, i) ==
    LET after(close) == IF close = 0 THEN 0 ELSE close + 1
        rest(prefix) ==
            IF ~prefix.found THEN 0
            ELSE after(find_char(s, prefix.end, CloseParen))
    IN  rest(match_rgb_at(s, i))

\* RGB_PATTERN.findall(css): the text of every match, left to right
RECURSIVE findall_rgb(_, _)
findall_rgb(s, i) ==
    LET rest(p, end) == <<SubSeq(s, p, end - 1)>> \o findall_rgb(s, end)
        at(p) == IF p > Len(s) THEN <<>> ELSE rest(p, match_rgb_pattern_at(s, p))
    IN  IF i > Len(s) THEN <<>>
        ELSE at(leftmost(s, i, [p \in 1..Len(s) |-> match_rgb_pattern_at(s, p) # 0]))

\* a CSS_VAR_PATTERN that matches nowhere
match_css_var_at_never(s, i) == NoMatch

\* CSS_VAR_PATTERN = --[\w-]+:\s*([#\w(),.%\s]+); matched at position i:
\* the captured value and the position after the match.  When only
\* whitespace stands between the colon and the semicolon, \s* gives its
\* last character back to the group.
match_css_var_at(s, i) ==
    IF ~(CharAt(s, i) = Minus /\ CharAt(s, i + 1) = Minus) THEN NoMatch
    ELSE LET group(colon, from, to) ==
                 IF CharAt(s, to) # Semicolon THEN NoMatch
                 ELSE IF to > from
                 THEN [found |-> TRUE, value |-> SubSeq(s, from, to - 1),
                       end |-> to + 1]
                 ELSE IF from > colon + 1
                 THEN [found |-> TRUE, value |-> SubSeq(s, from - 1, from - 1),
                       end |-> to + 1]
                 ELSE NoMatch
             spaces(colon, from) ==
                 group(colon, from, skip_class(s, from, ValueChars))
             name(colon) ==
                 IF colon = i + 2 \/ CharAt(s, colon) # Colon THEN NoMatch
                 ELSE spaces(colon, skip_class(s, colon + 1, Whitespace))
         IN  name(skip_class(s, i + 2, NameChars))

\* CSS_VAR_PATTERN.findall(css): the captured value of every match
RECURSIVE findall_css_var(_, _)
findall_css_var(s, i) ==
    LET rest(match) == <<match.value>> \o findall_css_var(s, match.end)
        at(p) == IF p > Len(s) THEN <<>> ELSE rest(match_css_var_at(s, p))
    IN  IF i > Len(s) THEN <<>>
        ELSE at(leftmost(s, i, [p \in 1..Len(s) |-> match_css_var_at(s, p).found]))

(***************************************************************************)
(* ColorExtractor: the collector                                           *)
(***************************************************************************)
\* the alternatives of the three SEMANTIC_VAR_PATTERNS, in regex order
SemanticKeywords ==
    [primary |-> << str(<<"p", "r", "i", "m", "a", "r", "y">>) >>,
     accent |-> << str(<<"a", "c", "c", "e", "n", "t">>),
                   str(<<"s", "e", "c", "o", "n", "d", "a", "r", "y">>),
                   str(<<"h", "i", "g", "h", "l", "i", "g", "h", "t">>) >>,
     background |-> << str(<<"b", "a", "c", "k", "g", "r", "o", "u", "n", "d">>),
                       str(<<"b", "g">>) >>]

SemanticRoles == <<"primary", "accent", "background">>

ColorDash == str(<<"c", "o", "l", "o", "r", "-">>)

\* the position after the first alternative of the role that occurs at i,
\* or 0
match_keyword_at(s, i, role) ==
    LET first(alts, hits) ==
            IF hits = {} THEN 0
            ELSE i + Len(alts[CHOOSE k \in hits : \A h \in hits : k <= h])
        among(alts) ==
            first(alts, {k \in 1..Len(alts) : starts_with_at(s, i, alts[k])})
    IN  among(SemanticKeywords[role])

\* --(color-)?(keyword...)[^:]*:\s*(#[0-9a-fA-F]{3,6}) with re.I matched
\* at position i: the last group
match_semantic_at(s, i, role) ==
    IF ~starts_with_at(s, i, <<Minus, Minus>>) THEN NoMatch
    ELSE LET digits(hash, to) ==
                 IF to - (hash + 1) < 3 THEN NoMatch
                 ELSE [found |-> TRUE,
                       value |-> SubSeq(s, hash, Min2(to - 1, hash + 6))]
             value(hash) ==
                 IF CharAt(s, hash) # Hash THEN NoMatch
                 ELSE digits(hash, skip_class(s, hash + 1, HexChars))
             rest(colon) ==
                 IF colon = 0 THEN NoMatch
                 ELSE value(skip_class(s, colon + 1, Whitespace))
             keyword(after) ==
                 IF after = 0 THEN NoMatch ELSE rest(find_char(s, after, Colon))
         IN  keyword(match_keyword_at(
                         s,
                         IF starts_with_at(s, i + 2, ColorDash) THEN i + 8 ELSE i + 2,
                         role))

\* pattern.search(css): the leftmost match from position i on
search_semantic(s, i, role) ==
    LET at(p) == IF p > Len(s) THEN NoMatch ELSE match_semantic_at(s, p, role)
    IN  at(leftmost(s, i, [p \in 1..Len(s) |-> match_semantic_at(s, p, role).found]))

\* semantic_var taking the last match of the pattern
semantic_var_last(css, role) ==
    LET last(hits) ==
            IF hits = {} THEN None
            ELSE normalize_color(
                     match_semantic_at(css, CHOOSE i \in hits : \A h \in hits : h <= i,
                                       role).value)
    IN  last({i \in 1..Len(css) : match_semantic_at(css, i, role).found})

\* the value _extract_semantic_vars stores for a role, or None
semantic_var(css, role) ==
    LET stored(match) ==
            IF match.found THEN normalize_color(match.value) ELSE None
    IN  stored(search_semantic(css, 1, role))

\* _extract_semantic_vars: a dict holding the roles that were found
_extract_semantic_vars(css) ==
    LET dict(found, present) ==
            [role \in {SemanticRoles[k] : k \in present} |->
                found[CHOOSE k \in present : SemanticRoles[k] = role]]
        roles(found) == dict(found, {k \in 1..3 : found[k] # None})
    IN  roles([k \in 1..3 |-> semantic_var(css, SemanticRoles[k])])

\* the values whose normalize_color is not None, normalized; a ValueError
\* of normalize_color is not caught
RECURSIVE keep_normalized(_)
keep_normalized(values) ==
    IF values = <<>> THEN <<>>
    ELSE LET kept(normalized, rest) ==
                 IF normalized = ValueError \/ rest = ListValueError
                 THEN ListValueError
                 ELSE (IF normalized # None THEN <<normalized>> ELSE <<>>)
                        \o rest
         IN  kept(normalize_color(Head(values)), keep_normalized(Tail(values)))

\* _extract_colors with the rgb()/rgba() calls before the hex literals
_extract_colors_rgb_first(css) ==
    LET with_hash(hex) == [k \in 1..Len(hex) |-> <<Hash>> \o hex[k]]
        stripped(var) == [k \in 1..Len(var) |-> strip(var[k])]
        colors(hex, rgb, var) ==
            IF ListValueError \in {hex, rgb, var} THEN ListValueError
            ELSE rgb \o hex \o var
    IN  colors(keep_normalized(with_hash(findall_hex(css, 1))),
               keep_normalized(findall_rgb(css, 1)),
               keep_normalized(stripped(findall_css_var(css, 1))))

\* _extract_colors: the hex literals, then the rgb()/rgba() calls, then the
\* custom-property values
_extract_colors(css) ==
    LET with_hash(hex) == [k \in 1..Len(hex) |-> <<Hash>> \o hex[k]]
        stripped(var) == [k \in 1..Len(var) |-> strip(var[k])]
        colors(hex, rgb, var) ==
            IF ListValueError \in {hex, rgb, var} THEN ListValueError
            ELSE hex \o rgb \o var
    IN  colors(keep_normalized(with_hash(findall_hex(css, 1))),
               keep_normalized(findall_rgb(css, 1)),
               keep_normalized(stripped(findall_css_var(css, 1))))

\* _get_meta_theme_color, content being None without a tag or attribute
_get_meta_theme_color(content) ==
    IF content # None /\ content # <<>> THEN normalize_color(content) ELSE None

\* '\n'.join(css_parts)
RECURSIVE join_lines(_)
join_lines(css_parts) ==
    IF css_parts = <<>> THEN <<>>
    ELSE IF Len(css_parts) = 1 THEN css_parts[1]
    ELSE css_parts[1] \o <<\h000A>> \o join_lines(Tail(css_parts))

\* the strings of the style tags that have one
RECURSIVE style_strings(_)
style_strings(style_tags) ==
    IF style_tags = <<>> THEN <<>>
    ELSE (IF Head(style_tags) # None /\ Head(style_tags) # <<>>
          THEN <<Head(style_tags)>> ELSE <<>>)
            \o style_strings(Tail(style_tags))

\* what the stylesheet links append to css_parts.  A link is skipped
\* without an href; urljoin(base_url, href), outside the try, raises
\* ValueError for some hrefs; a RequestException of the fetch is caught;
\* the text of a response of status 200 is appended.
RECURSIVE stylesheet_texts(_)
stylesheet_texts(links) ==
    IF links = <<>> THEN <<>>
    ELSE LET appended(link, rest) ==
                 IF link.href = None \/ link.href = <<>> THEN rest
                 ELSE IF link.urljoin = "ValueError" \/ rest = ListValueError
                 THEN ListValueError
                 ELSE IF link.get # "RequestException" /\ link.status_code = 200
                 THEN <<link.text>> \o rest
                 ELSE rest
         IN  appended(Head(links), stylesheet_texts(Tail(links)))

\* _collect_css: the strings of the style tags, the style attributes and
\* the stylesheets of the first 3 links, joined; or the ValueError of
\* urljoin
_collect_css(soup) ==
    LET joined(stylesheets) ==
            IF stylesheets = ListValueError THEN ValueError
            ELSE join_lines(style_strings(soup.style_tags) \o soup.style_attrs
                              \o stylesheets)
    IN  joined(stylesheet_texts(SubSeq(soup.links, 1, Min2(3, Len(soup.links)))))

\* list(Counter(colors).keys()): the colours in first-seen order
RECURSIVE counter_keys(_)
counter_keys(colors) ==
    IF colors = <<>> THEN <<>>
    ELSE LET front == SubSeq(colors, 1, Len(colors) - 1)
             last == colors[Len(colors)]
         IN  IF \E k \in 1..Len(front) : front[k] = last
             THEN counter_keys(front)
             ELSE counter_keys(front) \o <<last>>

\* Counter(colors) counting every colour once
Counter_once(colors) ==
    [c \in {colors[k] : k \in 1..Len(colors)} |-> 1]

\* Counter(colors)
Counter(colors) ==
    [c \in {colors[k] : k \in 1..Len(colors)} |->
        Cardinality({k \in 1..Len(colors) : colors[k] = c})]

(***************************************************************************)
(* ColorExtractor.extract_from_url and its caller extract_brand_identity   *)
(***************************************************************************)
\* semantic_override without the accent
semantic_override_no_accent(classified_, semantic) ==
    LET with_primary ==
            IF "primary" \in DOMAIN semantic
            THEN [classified_ EXCEPT !.primary = semantic["primary"]]
            ELSE classified_
        dark == float_lt(luminance(semantic["background"]), DarkBackgroundBelow)
    IN  IF "background" \in DOMAIN semantic
        THEN [with_primary EXCEPT !.background = semantic["background"],
                                  !.theme = IF dark THEN "dark" ELSE "light",
                                  !.text = IF dark THEN White ELSE Black]
        ELSE with_primary

\* the overrides of extract_from_url: each semantic colour replaces the
\* classified one, and a semantic background also decides theme and text
semantic_override(classified_, semantic) ==
    LET with_primary ==
            IF "primary" \in DOMAIN semantic
            THEN [classified_ EXCEPT !.primary = semantic["primary"]]
            ELSE classified_
        with_accent ==
            IF "accent" \in DOMAIN semantic
            THEN [with_primary EXCEPT !.accent = semantic["accent"]]
            ELSE with_primary
        dark == float_lt(luminance(semantic["background"]), DarkBackgroundBelow)
    IN  IF "background" \in DOMAIN semantic
        THEN [with_accent EXCEPT !.background = semantic["background"],
                                 !.theme = IF dark THEN "dark" ELSE "light",
                                 !.text = IF dark THEN White ELSE Black]
        ELSE with_accent

\* the colours extract_from_url counts: those of the CSS, then the meta
\* theme-color if it normalizes
collected_colors(css, content) ==
    LET colors(found, theme_color) ==
            IF found = ListValueError \/ theme_color = ValueError
            THEN ListValueError
            ELSE found \o (IF theme_color # None THEN <<theme_color>> ELSE <<>>)
    IN  colors(_extract_colors(css), _get_meta_theme_color(content))

\* dict.get(key, default)
dict_get(d, key, default) == IF key \in DOMAIN d THEN d[key] ELSE default

\* a or b for two str-or-None values
py_or(a, b) == IF a # None /\ a # <<>> THEN a ELSE b

\* the pages a fetch can return are made of these texts (style blocks,
\* style attributes and stylesheets)
Fragments ==
    { str(<<"a", "{", "c", "o", "l", "o", "r", ":", "#", "F", "F", "F", "}">>),
      str(<<"b", "{", "c", "o", "l", "o", "r", ":", "r", "g", "b", "(", "3", "0", "0", ",", " ", "0", ",", " ", "1", "2", "8", ")", "}">>),
      str(<<"-", "-", "p", "r", "i", "m", "a", "r", "y", ":", " ", "#", "f", "f", "0", "0", "0", "0", ";">>),
      str(<<"-", "-", "a", "c", "c", "e", "n", "t", ":", "#", "0", "F", "0", ";">>),
      str(<<"-", "-", "b", "g", ":", " ", "#", "1", "a", "1", "a", "2", "e", ";">>),
      str(<<"c", "{", "c", "o", "l", "o", "r", ":", "#", "1", "2", "3", "4", "5", ";", "f", "i", "l", "l", ":", "#", "f", "f", "f">>)
        \o <<\h0138, ord("}")>>,
      str(<<"-", "-", "x", ":", " ", "r", "g", "b", "a", "(", "0", ",", " ", "0", ",", " ", "2", "5", "5", ",", " ", ".", "5", ")", ";">>),
      str(<<"d", "{", "b", "a", "c", "k", "g", "r", "o", "u", "n", "d", ":", "#", "f", "5", "f", "5", "f", "5", "}">>) }

\* the content of the page's meta theme-color tag: none, a colour, a word
MetaContents ==
    { None,
      str(<<"#", "E", "1", "D", "7", "F", "F">>),
      str(<<"r", "e", "d">>) }

SeqsUpTo(S, n) == UNION {[1..k -> S] : k \in 0..n}

\* a rule and a theme-color content whose rgb() call has a first component
\* of one digit more than int() converts
LongChannel == [k \in 1..(MaxStrDigits + 1) |-> ord("9")]

LongChannelRule ==
    str(<<"e", "{", "c", "o", "l", "o", "r", ":", "r", "g", "b", "(">>)
      \o LongChannel \o str(<<",", "0", ",", "0", ")", "}">>)

LongChannelContent ==
    str(<<"r", "g", "b", "(">>) \o LongChannel \o str(<<",", "0", ",", "0", ")">>)

\* A page is the url and what it serves: whether the fetch of
\* ColorExtractor.extract_from_url returns a response, whether
\* urlparse(url) returns a ParseResult or raises ValueError (as it does for
\* http://[ ), and the styles, links and theme-color of the document.
ExampleUrl ==
    str(<<"h", "t", "t", "p", "s", ":", "/", "/", "e", "x", "a", "m", "p", "l",
          "e", ".", "c", "o", "m">>)

\* a page whose fetch failed
FailedPage ==
    [ok |-> FALSE, url |-> ExampleUrl, urlparse |-> "ParseResult",
     style_tags |-> <<>>, style_attrs |-> <<>>, links |-> <<>>,
     theme_color |-> None]

\* a url that is no URL: the fetch fails with requests' InvalidURL, a
\* RequestException, and urlparse raises ValueError
InvalidUrlPage ==
    [FailedPage EXCEPT !.url = str(<<"h", "t", "t", "p", ":", "/", "/", "[">>),
                       !.urlparse = "ValueError"]

\* a fetched page that holds style tags only
StylePage(strings, content) ==
    [ok |-> TRUE, url |-> ExampleUrl, urlparse |-> "ParseResult",
     style_tags |-> strings, style_attrs |-> <<>>, links |-> <<>>,
     theme_color |-> content]

\* the stylesheet links of a page: what link.get('href') returns, whether
\* urljoin of that href returns a URL or raises ValueError (as it does for
\* http://[ ), whether the fetch of the URL returns or raises a
\* RequestException, and the response
NoHrefLink ==
    [href |-> None, urljoin |-> "url", get |-> "response",
     status_code |-> 200, text |-> <<>>]

InvalidHrefLink ==
    [href |-> str(<<"h", "t", "t", "p", ":", "/", "/", "[">>),
     urljoin |-> "ValueError", get |-> "response",
     status_code |-> 200, text |-> <<>>]

UnreachableLink ==
    [href |-> str(<<"a", ".", "c", "s", "s">>),
     urljoin |-> "url", get |-> "RequestException",
     status_code |-> 200, text |-> <<>>]

MissingLink ==
    [href |-> str(<<"b", ".", "c", "s", "s">>),
     urljoin |-> "url", get |-> "response", status_code |-> 404,
     text |-> str(<<"e", "{", "c", "o", "l", "o", "r", ":", "#", "4", "0", "4", "}">>)]

StylesheetLink ==
    [href |-> str(<<"c", ".", "c", "s", "s">>),
     urljoin |-> "url", get |-> "response", status_code |-> 200,
     text |-> str(<<"f", "{", "c", "o", "l", "o", "r", ":", "#", "0", "0", "f", "}">>)]

Links == {NoHrefLink, InvalidHrefLink, UnreachableLink, MissingLink, StylesheetLink}

\* a style tag without a string and an empty style attribute, or one rule
\* and one declaration
InlineStyles ==
    {[style_tags |-> <<None>>, style_attrs |-> << <<>> >>],
     [style_tags |-> <<str(<<"g", "{", "c", "o", "l", "o", "r", ":", "#", "F", "F", "F", "}">>)>>,
      style_attrs |-> <<str(<<"c", "o", "l", "o", "r", ":", "#", "0", "f", "0">>)>>]}

\* a page whose style tag, and one whose theme-color, holds the long
\* component
LongChannelPages ==
    {StylePage(<<LongChannelRule>>, None),
     StylePage(<<str(<<"-", "-", "p", "r", "i", "m", "a", "r", "y", ":", " ", "#", "f", "f", "0", "0", "0", "0", ";">>)>>,
               LongChannelContent)}

\* the pages of a url: the fetch fails, of a URL and of a url that is none;
\* a page of style tags over Fragments; a page of stylesheet links over
\* Links; a page with a component over the limit of int()
Pages ==
    {FailedPage, InvalidUrlPage} \cup
    {StylePage(parts, content) :
        parts \in SeqsUpTo(Fragments, MaxFrags), content \in MetaContents} \cup
    {[StylePage(inline.style_tags, None) EXCEPT
         !.style_attrs = inline.style_attrs, !.links = links] :
        inline \in InlineStyles, links \in SeqsUpTo(Links, MaxLinks) \ {<<>>}} \cup
    LongChannelPages

\* the --primary, --accent and --background options of the command line
NoArgs == [primary |-> None, accent |-> None, background |-> None]

CliArgs == {NoArgs, [NoArgs EXCEPT !.primary = str(<<"#", "1", "2", "3", "4", "5", "6">>)]}

Init ==
    /\ pc = "start"
    /\ page \in Pages
    /\ args \in CliArgs
    /\ unique_colors = <<>>
    /\ color_counts = <<>>
    /\ semantic_colors = <<>>
    /\ classified = None
    /\ color_data = None
    /\ brand = None
    /\ color_arg = None
    /\ normalizations = <<>>
    /\ NoOthers

\* extract_from_url selecting the accent again, relative to the overridden
\* primary and background, when no semantic accent is supplied
extract_from_url_reselect_accent ==
    /\ pc = "start"
    /\ IF ~page.ok
       THEN /\ pc' = "extracted"
            /\ color_data' = [error |-> "RequestException", colors |-> <<>>,
                              theme |-> "light"]
            /\ UNCHANGED <<unique_colors, color_counts, semantic_colors, classified>>
       ELSE \E all_css \in {_collect_css(page)} :
            \E colors \in {IF all_css = ValueError THEN ListValueError
                           ELSE collected_colors(all_css, page.theme_color)} :
            IF colors = ListValueError
            THEN /\ pc' = "ValueError"
                 /\ UNCHANGED <<unique_colors, color_counts, semantic_colors,
                                classified, color_data>>
            ELSE
            \E semantic \in {_extract_semantic_vars(all_css)} :
            \E counts \in {Counter(colors)} :
            \E unique \in {counter_keys(colors)} :
            \E result \in {_classify_colors(unique, counts)} :
            \E overridden \in {semantic_override(result, semantic)} :
            \E final \in {IF "accent" \in DOMAIN semantic
                          THEN overridden
                          ELSE [overridden EXCEPT !.accent =
                                  accent_color(
                                    chromatic_colors(unique, overridden.background),
                                    overridden.primary)]} :
                /\ pc' = "extracted"
                /\ semantic_colors' = semantic
                /\ color_counts' = counts
                /\ unique_colors' = unique
                /\ classified' = result
                /\ color_data' =
                      [colors |-> unique, color_counts |-> counts,
                       semantic_vars_found |-> (DOMAIN semantic # {}),
                       primary |-> final.primary, accent |-> final.accent,
                       background |-> final.background, text |-> final.text,
                       theme |-> final.theme]
    /\ UNCHANGED <<page, args, brand, color_arg, normalizations, other_vars>>

\* color_extractor.extract_from_url(url): the fetch fails, or the page is
\* collected, counted, classified and overridden by the semantic colours;
\* a ValueError of urljoin or of int() is not caught and leaves the call,
\* and main then prints the error and exits with status 1
extract_from_url ==
    /\ pc = "start"
    /\ IF ~page.ok
       THEN /\ pc' = "extracted"
            /\ color_data' = [error |-> "RequestException", colors |-> <<>>,
                              theme |-> "light"]
            /\ UNCHANGED <<unique_colors, color_counts, semantic_colors, classified>>
       ELSE \E all_css \in {_collect_css(page)} :
            \E colors \in {IF all_css = ValueError THEN ListValueError
                           ELSE collected_colors(all_css, page.theme_color)} :
            IF colors = ListValueError
            THEN /\ pc' = "ValueError"
                 /\ UNCHANGED <<unique_colors, color_counts, semantic_colors,
                                classified, color_data>>
            ELSE
            \E semantic \in {_extract_semantic_vars(all_css)} :
            \E counts \in {Counter(colors)} :
            \E unique \in {counter_keys(colors)} :
            \E result \in {_classify_colors(unique, counts)} :
            \E final \in {semantic_override(result, semantic)} :
                /\ pc' = "extracted"
                /\ semantic_colors' = semantic
                /\ color_counts' = counts
                /\ unique_colors' = unique
                /\ classified' = result
                /\ color_data' =
                      [colors |-> unique, color_counts |-> counts,
                       semantic_vars_found |-> (DOMAIN semantic # {}),
                       primary |-> final.primary, accent |-> final.accent,
                       background |-> final.background, text |-> final.text,
                       theme |-> final.theme]
    /\ UNCHANGED <<page, args, brand, color_arg, normalizations, other_vars>>

\* whether BrandExtractor.extract_from_url raises: its urlparse(url) stands
\* before the try and raises ValueError for a url that is no URL
urlparse_raises(p) == p.urlparse = "ValueError"

\* the rest of extract_brand_identity: BrandExtractor.extract_from_url,
\* whose ValueError nothing catches, then the BrandIdentity built from
\* color_data and the command line
extract_brand_identity ==
    /\ pc = "extracted"
    /\ IF urlparse_raises(page)
       THEN /\ pc' = "ValueError"
            /\ UNCHANGED brand
       ELSE /\ pc' = "done"
            /\ brand' =
                  [colors |-> dict_get(color_data, "colors", <<>>),
                   primary_color |-> py_or(args.primary,
                                           dict_get(color_data, "primary", FallbackPrimary)),
                   accent_color |-> py_or(args.accent,
                                          dict_get(color_data, "accent", FallbackAccent)),
                   background_color |-> py_or(args.background,
                                              dict_get(color_data, "background", White)),
                   text_color |-> dict_get(color_data, "text", White),
                   theme |-> dict_get(color_data, "theme", "light")]
    /\ UNCHANGED <<page, args, unique_colors, color_counts, semantic_colors,
                   classified, color_data, color_arg, normalizations, other_vars>>

Next == extract_from_url \/ extract_brand_identity

Spec == Init /\ [][Next]_vars

(***************************************************************************)
(* Classification of a corpus: the inputs of _classify_colors are drawn    *)
(* from the corpora over ColorUniverse, and the action applies it.         *)
(***************************************************************************)
\* very dark: #333333, #1a1a2e; very light: #ffffff, #ffffcd; the others
\* lie between.  #808a80 has a channel spread of exactly 10, #ed1800 is at
\* distance exactly 30 from #ff0000 and as saturated, and #ffffcd is at
\* distance exactly 50 from #ffffff.
ColorUniverse ==
    { str(<<"#", "3", "3", "3", "3", "3", "3">>),
      str(<<"#", "1", "a", "1", "a", "2", "e">>),
      str(<<"#", "f", "f", "f", "f", "f", "f">>),
      str(<<"#", "f", "f", "f", "f", "c", "d">>),
      str(<<"#", "8", "0", "8", "a", "8", "0">>),
      str(<<"#", "f", "f", "0", "0", "0", "0">>),
      str(<<"#", "e", "d", "1", "8", "0", "0">>) }

Range(s) == {s[i] : i \in 1..Len(s)}

\* the sequences of at most n distinct colours
DistinctSeqs(S, n) ==
    UNION {{s \in [1..k -> S] : \A i, j \in 1..k : i < j => s[i] # s[j]} : k \in 0..n}

\* the sum of the values of a function
RECURSIVE SumOf(_)
SumOf(f) ==
    IF DOMAIN f = {} THEN 0
    ELSE LET x == CHOOSE y \in DOMAIN f : TRUE
         IN  f[x] + SumOf([y \in DOMAIN f \ {x} |-> f[y]])

\* the Counters of at most MaxSamples samples whose keys are the colours S
CountersOver(S) ==
    {f \in [S -> 1..(MaxSamples - Cardinality(S) + 1)] : SumOf(f) <= MaxSamples}

InitClassify ==
    /\ pc = "classify"
    /\ unique_colors \in DistinctSeqs(ColorUniverse, MaxColors)
    /\ color_counts \in CountersOver(Range(unique_colors))
    /\ page = None
    /\ args = None
    /\ semantic_colors = None
    /\ classified = None
    /\ color_data = None
    /\ brand = None
    /\ color_arg = None
    /\ normalizations = <<>>
    /\ NoOthers

\* a call of _classify_colors(unique_colors, color_counts)
classify ==
    /\ pc = "classify"
    /\ classified' = _classify_colors(unique_colors, color_counts)
    /\ pc' = "classified"
    /\ UNCHANGED <<page, args, unique_colors, color_counts, semantic_colors,
                   color_data, brand, color_arg, normalizations, other_vars>>

NextClassify == classify

SpecClassify == InitClassify /\ [][NextClassify]_vars

(***************************************************************************)
(* Vocabulary of the properties of a classified corpus.                    *)
(***************************************************************************)
Corpus == Range(unique_colors)

Classified == pc = "classified" /\ unique_colors # <<>>

\* position of a colour in the corpus's first-seen order
Position(c) == CHOOSE i \in 1..Len(unique_colors) : unique_colors[i] = c

VeryDark == {c \in Corpus : float_lt(luminance(c), VeryDarkBelow)}

VeryLight == {c \in Corpus : float_lt(VeryLightAbove, luminance(c))}

\* summed occurrence count of a set of corpus colours
RECURSIVE SummedCount(_)
SummedCount(S) ==
    IF S = {} THEN 0
    ELSE LET c == CHOOSE x \in S : TRUE
         IN  color_counts[c] + SummedCount(S \ {c})

\* greatest channel minus least channel
ChannelSpread(c) ==
    LET rgb == hex_to_rgb(c)
    IN  Max3(rgb[1], rgb[2], rgb[3]) - Min3(rgb[1], rgb[2], rgb[3])

\* the corpus colours that are chromatic with respect to the background b
ChromaticWrt(b) ==
    {c \in Corpus : ChannelSpread(c) > 10 /\ color_distance_sq(c, b) > 50 * 50}

Chromatic == ChromaticWrt(classified.background)

\* c is the member of S with the greatest count, the earliest one on ties
HighestCountIn(c, S) ==
    /\ c \in S
    /\ \A d \in S :
          /\ color_counts[d] <= color_counts[c]
          /\ color_counts[d] = color_counts[c] => Position(c) <= Position(d)

\* a.num / a.den for the saturation of c, compared by cross multiplication
SatNum(c) == LET rgb == hex_to_rgb(c) IN Max3(rgb[1], rgb[2], rgb[3]) - Min3(rgb[1], rgb[2], rgb[3])
SatDen(c) == LET rgb == hex_to_rgb(c) IN Max3(rgb[1], rgb[2], rgb[3])
SatLeq(c, d) ==
    IF SatDen(c) = 0 THEN TRUE
    ELSE IF SatDen(d) = 0 THEN SatNum(c) = 0
    ELSE SatNum(c) * SatDen(d) <= SatNum(d) * SatDen(c)

\* the colours accent is selected from
AccentCandidates ==
    {c \in Chromatic : c # classified.primary
                       /\ color_distance_sq(c, classified.primary) > 30 * 30}

\* C1: in a non-empty corpus without very dark and without very light
\* colours the background is the darkest corpus colour under a dark theme
\* and the lightest corpus colour under a light theme.
C1_BackgroundWithoutExtremes ==
    (Classified /\ VeryDark = {} /\ VeryLight = {}) =>
        /\ classified.background \in Corpus
        /\ IF classified.theme = "dark"
           THEN \A c \in Corpus :
                    float_le(luminance(classified.background), luminance(c))
           ELSE \A c \in Corpus :
                    float_le(luminance(c), luminance(classified.background))

\* C2: the theme of a non-empty corpus is dark exactly when the very dark
\* colours outnumber the very light ones by summed count, or very dark
\* colours exist and very light ones do not; otherwise it is light.
C2_ThemeDecision ==
    Classified =>
        /\ classified.theme \in {"dark", "light"}
        /\ classified.theme = "dark" <=>
              \/ SummedCount(VeryDark) > SummedCount(VeryLight)
              \/ (VeryDark # {} /\ VeryLight = {})

\* C2 witness: a dark theme decided by counts against very light colours,
\* in a corpus holding both kinds
C2_Witness ==
    /\ Classified
    /\ classified.theme = "dark"
    /\ VeryLight # {}
    /\ Cardinality(VeryDark) = 2

\* C3: under a dark theme with very dark colours the background is the
\* very dark colour of least luminance; otherwise, when very light colours
\* exist, it is the very light colour of greatest luminance.
C3_BackgroundFromExtremes ==
    Classified =>
        IF classified.theme = "dark" /\ VeryDark # {}
        THEN /\ classified.background \in VeryDark
             /\ \A c \in VeryDark :
                    float_le(luminance(classified.background), luminance(c))
        ELSE VeryLight # {} =>
             /\ classified.background \in VeryLight
             /\ \A c \in VeryLight :
                    float_le(luminance(c), luminance(classified.background))

\* C3 witness: a light theme although very dark colours exist, with two
\* very light colours to choose the background from
C3_Witness ==
    /\ Classified
    /\ classified.theme = "light"
    /\ VeryDark # {}
    /\ Cardinality(VeryLight) = 2
    /\ \E c \in VeryLight :
          float_lt(luminance(c), luminance(classified.background))

\* C4: when chromatic colours exist, primary is the chromatic colour of
\* greatest count, the earliest in corpus order among equal counts.
C4_PrimaryMostUsedChromatic ==
    (Classified /\ Chromatic # {}) => HighestCountIn(classified.primary, Chromatic)

\* C4 witness: two chromatic colours share the greatest count and primary is
\* the earlier one, while a chromatic colour of smaller count precedes it
C4_Witness ==
    /\ Classified
    /\ \E c, d \in Chromatic :
          /\ c # classified.primary /\ d # classified.primary /\ c # d
          /\ color_counts[c] = color_counts[classified.primary]
          /\ Position(classified.primary) < Position(c)
          /\ color_counts[d] < color_counts[classified.primary]
          /\ Position(d) < Position(classified.primary)

\* C5: when a non-empty corpus has no chromatic colour, primary is the
\* colour of greatest count among those different from the background
\* (earliest on ties), or #333333 when there is no such colour, and accent
\* equals primary.
C5_PrimaryFallback ==
    (Classified /\ Chromatic = {}) =>
        /\ IF Corpus \ {classified.background} # {}
           THEN HighestCountIn(classified.primary, Corpus \ {classified.background})
           ELSE classified.primary = FallbackPrimary
        /\ classified.accent = classified.primary

\* C5 witness: a grayscale corpus whose most frequent colour is the
\* background, so that primary is the runner-up
C5_Witness ==
    /\ Classified
    /\ \A c \in Corpus : ChannelSpread(c) <= 10
    /\ Cardinality(Corpus) = 3
    /\ \A c \in Corpus : color_counts[c] <= color_counts[classified.background]
    /\ \E c \in Corpus : color_counts[c] < color_counts[classified.background]
    /\ classified.primary # classified.background
    /\ classified.accent = classified.primary

\* C6: accent is the most saturated colour (earliest on ties) among the
\* chromatic colours other than primary that are farther than 30 from
\* primary; when there is none, accent equals primary.
C6_AccentSelection ==
    Classified =>
        IF AccentCandidates # {}
        THEN /\ classified.accent \in AccentCandidates
             /\ \A c \in AccentCandidates :
                   /\ SatLeq(c, classified.accent)
                   /\ SatLeq(classified.accent, c)
                         => Position(classified.accent) <= Position(c)
        ELSE classified.accent = classified.primary

\* C6 witness: a chromatic colour at distance exactly 30 from primary is
\* passed over although it is the most saturated of the others, and accent
\* is another colour
C6_Witness ==
    /\ Classified
    /\ classified.accent # classified.primary
    /\ \E c \in Chromatic :
          /\ c # classified.primary
          /\ color_distance_sq(c, classified.primary) = 30 * 30
          /\ ~SatLeq(c, classified.accent)

\* C7: the colours the classifier treats as chromatic are exactly the
\* corpus colours whose channel spread exceeds 10 and whose distance to the
\* chosen background exceeds 50; #808080 is grayscale and #ff0000 is not.
C7_ChromaticFilter ==
    Classified =>
        /\ Range(chromatic_colors(unique_colors, classified.background)) = Chromatic
        /\ is_grayscale(str(<<"#", "8", "0", "8", "0", "8", "0">>))
        /\ ~is_grayscale(str(<<"#", "f", "f", "0", "0", "0", "0">>))

\* C7 witness: a corpus with a colour of channel spread exactly 10 and a
\* colour at distance exactly 50 from the background, neither chromatic,
\* next to a chromatic colour
C7_Witness ==
    /\ Classified
    /\ \E c \in Corpus \ Chromatic : ChannelSpread(c) = 10
    /\ \E c \in Corpus \ Chromatic :
          ChannelSpread(c) > 10 /\ color_distance_sq(c, classified.background) = 50 * 50
    /\ Chromatic # {}

(***************************************************************************)
(* Properties of an extraction.                                            *)
(***************************************************************************)
\* '#' followed by exactly 6 lowercase hexadecimal digits
IsHexColor(c) ==
    /\ Len(c) = 7
    /\ c[1] = Hash
    /\ \A k \in 2..7 : c[k] \in LowerHexChars

\* C8: after a failed fetch, without command-line colours, the palette of
\* the brand identity is the default one: primary #333333, accent #666666,
\* background #ffffff, text #000000, theme light.
C8_FetchFailureDefaultPalette ==
    (pc = "done" /\ ~page.ok /\ args = NoArgs) =>
        /\ brand.primary_color = FallbackPrimary
        /\ brand.accent_color = FallbackAccent
        /\ brand.background_color = White
        /\ brand.text_color = Black
        /\ brand.theme = "light"

\* C9: every colour of the corpus is '#' followed by exactly 6 lowercase
\* hexadecimal digits.
C9_CorpusColorsNormalized ==
    pc # "start" => \A c \in Corpus : IsHexColor(c)

\* C10: every role the semantic colours supply has exactly that value in
\* the result of the extraction.
C10_SemanticOverride ==
    (pc \notin {"start", "ValueError"} /\ page.ok) =>
        \A role \in DOMAIN semantic_colors : color_data[role] = semantic_colors[role]

\* C10 witness: all three roles are supplied, and the classification of the
\* corpus had chosen another primary and another accent
C10_Witness ==
    /\ pc = "extracted"
    /\ page.ok
    /\ DOMAIN semantic_colors = {"primary", "accent", "background"}
    /\ classified.primary # semantic_colors["primary"]
    /\ classified.accent # semantic_colors["accent"]
    /\ Cardinality(Corpus) >= 3

(***************************************************************************)
(* Extraction from pages that declare a semantic background: the same      *)
(* pipeline, started from pages over HintFragments.                        *)
(***************************************************************************)
\* two rules without custom properties (one light sample, two dark ones)
\* and four declarations of a background: black, nearly white, and the two
\* greys on either side of luminance 0.5 (#bbbbbb below, #bcbcbc above)
HintFragments ==
    { str(<<"a", "{", "c", "o", "l", "o", "r", ":", "#", "F", "F", "F", "}">>),
      str(<<"b", "{", "c", "o", "l", "o", "r", ":", "#", "1", "1", "1", ";", "f", "i", "l", "l", ":", "#", "0", "0", "0", "}">>),
      str(<<"-", "-", "b", "g", ":", "#", "0", "0", "0", ";">>),
      str(<<"-", "-", "b", "a", "c", "k", "g", "r", "o", "u", "n", "d", ":", " ", "#", "f", "5", "f", "5", "f", "5", ";">>),
      str(<<"-", "-", "b", "g", ":", "#", "b", "b", "b", ";">>),
      str(<<"-", "-", "c", "o", "l", "o", "r", "-", "b", "g", ":", "#", "B", "C", "B", "C", "B", "C", ";">>) }

HintPages ==
    {StylePage(parts, None) :
        parts \in SeqsUpTo(HintFragments, MaxFrags)}

InitHints ==
    /\ pc = "start"
    /\ page \in HintPages
    /\ args = NoArgs
    /\ unique_colors = <<>>
    /\ color_counts = <<>>
    /\ semantic_colors = <<>>
    /\ classified = None
    /\ color_data = None
    /\ brand = None
    /\ color_arg = None
    /\ normalizations = <<>>
    /\ NoOthers

SpecHints == InitHints /\ [][Next]_vars

\* C11: when the semantic colours supply a background B, the theme of the
\* result is dark exactly when luminance(B) < 0.5 and light otherwise, and
\* the text is #ffffff for dark and #000000 for light, whatever theme the
\* classification of the corpus had chosen.
C11_BackgroundHintDecidesTheme ==
    (pc \notin {"start", "ValueError"} /\ page.ok /\ "background" \in DOMAIN semantic_colors) =>
        LET B == semantic_colors["background"]
        IN  /\ color_data.theme \in {"dark", "light"}
            /\ color_data.theme = "dark" <=> float_lt(luminance(B), FloatHalf)
            /\ color_data.theme = "dark" => color_data.text = White
            /\ color_data.theme = "light" => color_data.text = Black

\* C11 witness: the semantic background is #000000 and the corpus alone
\* selects the light theme; the result is dark with text #ffffff
C11_Witness ==
    /\ pc = "extracted"
    /\ page.ok
    /\ "background" \in DOMAIN semantic_colors
    /\ semantic_colors["background"] = Black
    /\ classified.theme = "light"
    /\ classified.text = Black
    /\ color_data.theme = "dark"
    /\ color_data.text = White

\* C12: in every palette of a successful extraction, with or without
\* semantic colours, the text is #ffffff if and only if the theme is dark,
\* and #000000 if and only if the theme is light.
C12_TextFollowsTheme ==
    (pc \notin {"start", "ValueError"} /\ page.ok) =>
        /\ color_data.text = White <=> color_data.theme = "dark"
        /\ color_data.text = Black <=> color_data.theme = "light"

\* C12 witness: the corpus alone selects the dark theme with text #ffffff,
\* and a semantic background turns the result to light with text #000000
C12_Witness ==
    /\ pc = "extracted"
    /\ page.ok
    /\ classified.theme = "dark"
    /\ classified.text = White
    /\ "background" \in DOMAIN semantic_colors
    /\ color_data.theme = "light"
    /\ color_data.text = Black

(***************************************************************************)
(* Properties of the classification of any corpus, the empty one included. *)
(***************************************************************************)
\* C13: the classification of the empty corpus is exactly primary #333333,
\* accent #666666, background #ffffff, text #000000, theme light.
C13_EmptyCorpusDefault ==
    (pc = "classified" /\ unique_colors = <<>>) =>
        classified = [primary |-> str(<<"#", "3", "3", "3", "3", "3", "3">>),
                      accent |-> str(<<"#", "6", "6", "6", "6", "6", "6">>),
                      background |-> str(<<"#", "f", "f", "f", "f", "f", "f">>),
                      text |-> str(<<"#", "0", "0", "0", "0", "0", "0">>),
                      theme |-> "light"]

\* C13 witness: the empty corpus has been classified
C13_Witness ==
    /\ pc = "classified"
    /\ unique_colors = <<>>
    /\ DOMAIN color_counts = {}
    /\ classified.accent # classified.primary
    /\ classified.theme = "light"

\* C14: the classification of every corpus is a complete palette: primary,
\* accent, background and text each hold a colour, and the theme is light
\* or dark.
C14_CompletePalette ==
    pc = "classified" =>
        /\ DOMAIN classified = {"primary", "accent", "background", "text", "theme"}
        /\ \A role \in {"primary", "accent", "background", "text"} :
               IsHexColor(classified[role])
        /\ classified.theme \in {"light", "dark"}

\* C14 witness: a corpus of a single colour, which is the background and
\* leaves no colour for the primary and the accent
C14_Witness ==
    /\ pc = "classified"
    /\ Len(unique_colors) = 1
    /\ color_counts[unique_colors[1]] >= 1
    /\ classified.background = unique_colors[1]
    /\ IsHexColor(classified.primary)
    /\ classified.primary # unique_colors[1]
    /\ classified.accent = classified.primary

(***************************************************************************)
(* normalize_color as a function of one colour string: the string is       *)
(* drawn from the written forms of a set of colours and from strings that  *)
(* are no colour, normalized, and the result normalized again.             *)
(***************************************************************************)
\* the channel triples written out: all over 0, 128, 255 and 300 (300 is
\* out of the range of a channel), and #aabbcc
WrittenChannels == {0, 128, 255, 300}

WrittenTriples ==
    (WrittenChannels \X WrittenChannels \X WrittenChannels) \cup {<<170, 187, 204>>}

\* str(n) of a natural number
RECURSIVE decimal(_)
decimal(n) ==
    IF n < 10 THEN <<HexDigits[n + 1]>>
    ELSE decimal(n \div 10) \o <<HexDigits[(n % 10) + 1]>>

\* the digits 0..9 of the Arabic-Indic script
ArabicIndicDigits ==
    <<\h0660, \h0661, \h0662, \h0663, \h0664,
      \h0665, \h0666, \h0667, \h0668, \h0669>>

\* the number written in Arabic-Indic digits
arabic_indic(n) ==
    [i \in 1..Len(decimal(n)) |-> ArabicIndicDigits[DecValue[decimal(n)[i]] + 1]]

\* the two hexadecimal digits of a channel value 0..255
two_digits(v) == <<HexDigits[(v \div 16) + 1], HexDigits[(v % 16) + 1]>>

\* the hexadecimal digit of a channel value whose two digits are equal
one_digit(v) == <<HexDigits[(v \div 17) + 1]>>

\* the text with its letters a-z in upper case
upper(s) ==
    [i \in 1..Len(s) |->
        IF \E k \in 1..26 : LowerLetters[k] = s[i]
        THEN UpperLetters[CHOOSE k \in 1..26 : LowerLetters[k] = s[i]]
        ELSE s[i]]

\* the number written with leading zeros in PaddedDigits digits
zero_padded(n) ==
    [k \in 1..(PaddedDigits - Len(decimal(n))) |-> ord("0")] \o decimal(n)

WrittenForms ==
    {"hex6", "HEX6", "hex3", "HEX3", " hex3 ", "hex6 CRLF", "rgb", "rgba", " RGB ",
     "rgb Arabic-Indic", "rgb zero-padded"}

\* whether the form can write the colour t
can_write(form, t) ==
    CASE form \in {"hex6", "HEX6", "hex6 CRLF"} -> \A k \in 1..3 : t[k] <= 255
      [] form \in {"hex3", "HEX3", " hex3 "} ->
            \A k \in 1..3 : t[k] <= 255 /\ t[k] % 17 = 0
      [] OTHER -> TRUE

\* the colour t written in the form
written(form, t) ==
    LET hex6 == str(<<"#">>) \o two_digits(t[1]) \o two_digits(t[2]) \o two_digits(t[3])
        hex3 == str(<<"#">>) \o one_digit(t[1]) \o one_digit(t[2]) \o one_digit(t[3])
    IN  CASE form = "hex6" -> hex6
          [] form = "HEX6" -> upper(hex6)
          [] form = "hex3" -> hex3
          [] form = "HEX3" -> upper(hex3)
          [] form = " hex3 " -> str(<<" ">>) \o hex3 \o <<\h000A>>
          [] form = "hex6 CRLF" -> <<\h00A0>> \o hex6 \o <<\h000D, \h000A>>
          [] form = "rgb Arabic-Indic" ->
                str(<<"r", "g", "b", "(">>) \o <<\h000D, \h000A>>
                  \o arabic_indic(t[1]) \o <<Comma>> \o arabic_indic(t[2])
                  \o <<Comma, \h000C>> \o arabic_indic(t[3]) \o <<CloseParen>>
          [] form = "rgb zero-padded" ->
                str(<<"r", "g", "b", "(">>) \o zero_padded(t[1]) \o <<Comma>>
                  \o zero_padded(t[2]) \o <<Comma>> \o zero_padded(t[3])
                  \o <<CloseParen>>
          [] form = "rgb" ->
                str(<<"r", "g", "b", "(">>) \o decimal(t[1]) \o str(<<",", " ">>) \o decimal(t[2])
                  \o str(<<",", " ">>) \o decimal(t[3]) \o str(<<")">>)
          [] form = "rgba" ->
                str(<<"r", "g", "b", "a", "(">>) \o decimal(t[1]) \o str(<<",">>) \o decimal(t[2])
                  \o str(<<",">>) \o decimal(t[3]) \o str(<<",", "0", ".", "5", ")">>)
          [] form = " RGB " ->
                str(<<" ", "R", "G", "B", " ", "(">>) \o <<\h0009>>
                  \o decimal(t[1]) \o str(<<" ", ",", " ">>) \o decimal(t[2])
                  \o str(<<" ", ",">>) \o decimal(t[3]) \o str(<<" ", ")">>)
                  \o <<\h000A>>

\* the written colours: the text with the colour it writes
Written ==
    {[text |-> written(form, t), rgb |-> t] :
        <<form, t>> \in {ft \in WrittenForms \X WrittenTriples : can_write(ft[1], ft[2])}}

\* strings that write no colour in these forms
OtherStrings ==
    { LongChannelContent,
      str(<<"#", "1", "2", "3", "4", "5">>),
      str(<<"#", "a", "b", "c", "d">>),
      str(<<"#", "1", "2", "3", "4", "5", "6", "7">>),
      str(<<"#", "g", "g", "g">>),
      str(<<"#">>),
      <<>>,
      str(<<"r", "e", "d">>),
      str(<<"#", "#", "f", "f", "f">>),
      str(<<"r", "g", "b", "(", "1", ",", "2", ")">>),
      str(<<"r", "g", "b", "(", "2", "5", "5", " ", "0", " ", "1", "2", "8", ")">>),
      str(<<"h", "s", "l", "(", "0", ",", " ", "0", "%", ",", " ", "5", "0", "%", ")">>),
      str(<<"r", "g", "b", "x", " ", "r", "g", "b", "(", "1", ",", " ", "2", ",", " ", "3", ")">>) }

ColorStrings == {w.text : w \in Written} \cup OtherStrings

InitNormalize ==
    /\ pc = "normalize"
    /\ color_arg \in ColorStrings
    /\ normalizations = <<>>
    /\ NoOthers
    /\ page = None
    /\ args = None
    /\ unique_colors = <<>>
    /\ color_counts = <<>>
    /\ semantic_colors = None
    /\ classified = None
    /\ color_data = None
    /\ brand = None

\* normalize_color(color): the value returned, or the ValueError raised
normalize ==
    /\ pc = "normalize"
    /\ \E returned \in {normalize_color(color_arg)} :
           IF returned = ValueError
           THEN pc' = "ValueError" /\ normalizations' = <<>>
           ELSE pc' = "normalized" /\ normalizations' = <<returned>>
    /\ UNCHANGED <<page, args, unique_colors, color_counts, semantic_colors,
                   classified, color_data, brand, color_arg, other_vars>>

\* normalize_color of the value the first call returned
renormalize ==
    /\ pc = "normalized"
    /\ normalizations[1] # None
    /\ pc' = "renormalized"
    /\ normalizations' = Append(normalizations, normalize_color(normalizations[1]))
    /\ UNCHANGED <<page, args, unique_colors, color_counts, semantic_colors,
                   classified, color_data, brand, color_arg, other_vars>>

NextNormalize == normalize \/ renormalize

SpecNormalize == InitNormalize /\ [][NextNormalize]_vars

\* C16: whenever normalize_color(c) returns a value v, normalize_color(v)
\* returns v.
C16_NormalizeIdempotent ==
    pc = "renormalized" => normalizations[2] = normalizations[1]

\* the normalized string of a colour: '#' and the two lowercase
\* hexadecimal digits of each channel
canonical(t) == str(<<"#">>) \o two_digits(t[1]) \o two_digits(t[2]) \o two_digits(t[3])

\* C17: every written form of a colour (3-digit or 6-digit hex in either
\* letter case, rgb() or rgba(), with or without surrounding whitespace)
\* normalizes to the same string: '#' and the two lowercase hexadecimal
\* digits of each of its three channels.
C17_FormsNormalizeAlike ==
    pc \notin {"normalize", "ValueError"} =>
        \A w \in Written :
            (w.text = color_arg /\ \A k \in 1..3 : w.rgb[k] <= 255) =>
                normalizations[1] = canonical(w.rgb)

\* C17 witness: #ABC has been normalized to #aabbcc, the string that the
\* rgb() form of the same colour normalizes to
C17_Witness ==
    /\ pc = "normalized"
    /\ color_arg = str(<<"#", "A", "B", "C">>)
    /\ normalizations[1] = str(<<"#", "a", "a", "b", "b", "c", "c">>)
    /\ normalize_color(written("rgb", <<170, 187, 204>>)) = normalizations[1]

(***************************************************************************)
(* Collection of the corpus: the same pipeline, started from pages whose   *)
(* fragments each hold known colour tokens.                                *)
(***************************************************************************)
\* a 3-digit hex literal in upper case
WhiteRule == str(<<"a", "{", "c", "o", "l", "o", "r", ":", "#", "F", "F", "F", "}">>)
\* an rgb() call
GreenRgbRule == str(<<"b", "{", "c", "o", "l", "o", "r", ":", "r", "g", "b", "(", "0", ",", " ", "2", "5", "5", ",", " ", "0", ")", "}">>)
\* a 5-digit and a 4-digit hex literal
FiveDigitRule == str(<<"c", "{", "c", "o", "l", "o", "r", ":", "#", "1", "2", "3", "4", "5", "}">>)
FourDigitRule == str(<<"d", "{", "c", "o", "l", "o", "r", ":", "#", "a", "b", "c", "d", "}">>)
\* a custom property whose value is no colour
FontProperty == str(<<"-", "-", "f", "o", "n", "t", ":", " ", "A", "r", "i", "a", "l", ";">>)
\* a custom property whose value is a 3-digit hex literal
GreenProperty == str(<<"-", "-", "x", ":", "#", "0", "f", "0", ";">>)
\* a custom property named by the ideograph U+4E2D whose value, a 3-digit
\* hex literal in upper case, stands on a line of its own, the lines ending
\* in carriage return and line feed
WhiteCrLfProperty ==
    <<Minus, Minus, \h4E2D, Colon, \h000D, \h000A>> \o str(<<"#", "F", "F", "F">>)
      \o <<\h000D, \h000A, Semicolon>>

CollectFragments ==
    {WhiteRule, GreenRgbRule, FiveDigitRule, FourDigitRule, FontProperty,
     GreenProperty, WhiteCrLfProperty}

\* the content of the meta theme-color tag: none, a colour of the
\* fragments, another colour, a word
WhiteMeta == str(<<"#", "F", "F", "F">>)
LilacMeta == str(<<"#", "E", "1", "D", "7", "F", "F">>)
WordMeta == str(<<"r", "e", "d">>)

CollectMetas == {None, WhiteMeta, LilacMeta, WordMeta}

\* the pages of the fragments, and those of a rule around the rule and
\* under the theme-color whose component is over the limit of int()
CollectPages ==
    {StylePage(parts, content) :
        parts \in SeqsUpTo(CollectFragments, MaxFrags), content \in CollectMetas}
      \cup {StylePage(<<LongChannelRule>>, None),
            StylePage(<<WhiteRule, LongChannelRule>>, WordMeta),
            StylePage(<<WhiteRule>>, LongChannelContent)}

InitCollect ==
    /\ pc = "start"
    /\ page \in CollectPages
    /\ args = NoArgs
    /\ unique_colors = <<>>
    /\ color_counts = <<>>
    /\ semantic_colors = <<>>
    /\ classified = None
    /\ color_data = None
    /\ brand = None
    /\ color_arg = None
    /\ normalizations = <<>>
    /\ NoOthers

SpecCollect == InitCollect /\ [][Next]_vars

Green == str(<<"#", "0", "0", "f", "f", "0", "0">>)
Lilac == str(<<"#", "e", "1", "d", "7", "f", "f">>)

\* the colours a fragment writes as valid hex literals, as rgb()/rgba()
\* calls and as custom-property values, each in text order
ValidTokens(fragment) ==
    CASE fragment = WhiteRule -> [hex |-> <<White>>, rgb |-> <<>>, var |-> <<>>]
      [] fragment = GreenRgbRule -> [hex |-> <<>>, rgb |-> <<Green>>, var |-> <<>>]
      [] fragment = GreenProperty -> [hex |-> <<Green>>, rgb |-> <<>>, var |-> <<Green>>]
      [] fragment = WhiteCrLfProperty ->
            [hex |-> <<White>>, rgb |-> <<>>, var |-> <<White>>]
      [] OTHER -> [hex |-> <<>>, rgb |-> <<>>, var |-> <<>>]

\* the colour a meta theme-color content writes, if any
ValidMeta(content) ==
    CASE content = WhiteMeta -> <<White>>
      [] content = LilacMeta -> <<Lilac>>
      [] OTHER -> <<>>

\* the valid tokens of one kind over the fragments of a page, in text order
RECURSIVE TokensOfKind(_, _)
TokensOfKind(parts, kind) ==
    IF parts = <<>> THEN <<>>
    ELSE ValidTokens(Head(parts))[kind] \o TokensOfKind(Tail(parts), kind)

\* the sample sequence of a page: its valid hex literals, then its valid
\* rgb()/rgba() calls, then its valid custom-property values, then its
\* valid meta theme-color
AcceptedSamples(p) ==
    TokensOfKind(p.style_tags, "hex") \o TokensOfKind(p.style_tags, "rgb")
      \o TokensOfKind(p.style_tags, "var") \o ValidMeta(p.theme_color)

\* the number of samples equal to c
Occurrences(samples, c) == Cardinality({k \in 1..Len(samples) : samples[k] = c})

\* C15: after collecting, the keys of the counts are the colours of the
\* unique sequence, the unique sequence has no duplicates, every count is
\* at least 1, and the count of a colour is the number of accepted samples
\* that normalized to it.
C15_CountsMatchSamples ==
    (pc \notin {"start", "ValueError"} /\ page.ok) =>
        \A samples \in {AcceptedSamples(page)} :
            /\ DOMAIN color_counts = Range(unique_colors)
            /\ \A i, j \in 1..Len(unique_colors) :
                   i # j => unique_colors[i] # unique_colors[j]
            /\ \A c \in DOMAIN color_counts :
                   /\ color_counts[c] >= 1
                   /\ color_counts[c] = Occurrences(samples, c)

\* C15 witness: a corpus of three colours, one sampled once and one
\* sampled three times in three written forms
C15_Witness ==
    /\ pc = "extracted"
    /\ page.ok
    /\ Len(unique_colors) = 3
    /\ color_counts[Lilac] = 1
    /\ color_counts[Green] = 3
    /\ GreenRgbRule \in Range(page.style_tags)
    /\ GreenProperty \in Range(page.style_tags)

\* the position of the first sample equal to c
FirstIndex(samples, c) ==
    CHOOSE k \in 1..Len(samples) :
        samples[k] = c /\ \A j \in 1..(k - 1) : samples[j] # c

\* C19: the unique sequence lists the colours in the order in which they
\* first occur in the sample sequence (all hex literals in text order, then
\* all rgb()/rgba() calls, then all custom-property values, then the meta
\* theme-color); every accepted sample adds exactly one to the counts, and
\* a valid meta theme-color is one sample, the last.
C19_FirstSeenOrder ==
    (pc \notin {"start", "ValueError"} /\ page.ok) =>
        \A samples \in {AcceptedSamples(page)} :
            /\ Range(unique_colors) = Range(samples)
            /\ Len(unique_colors) = Cardinality(Range(samples))
            /\ \A i, j \in 1..Len(unique_colors) :
                   i < j => FirstIndex(samples, unique_colors[i])
                              < FirstIndex(samples, unique_colors[j])
            /\ SumOf(color_counts) = Len(samples)
            /\ \A k \in 1..Len(ValidMeta(page.theme_color)) :
                   LET c == ValidMeta(page.theme_color)[k]
                   IN  /\ color_counts[c] =
                             Occurrences(SubSeq(samples, 1, Len(samples) - 1), c) + 1
                       /\ FirstIndex(samples, c) = Len(samples) =>
                             unique_colors[Len(unique_colors)] = c

\* C19 witness: the text holds an rgb() call before a hex literal and the
\* page a meta theme-color; the colour of the hex literal comes first and
\* that of the meta theme-color last, counted once
C19_Witness ==
    /\ pc = "extracted"
    /\ page.ok
    /\ page.style_tags = <<GreenRgbRule, WhiteRule>>
    /\ page.theme_color = LilacMeta
    /\ unique_colors = <<White, Green, Lilac>>
    /\ color_counts[Lilac] = 1

\* the fragments and the meta content that hold a rejected token and
\* nothing else: a 5-digit hex, a 4-digit hex, a custom property that is
\* no colour, an rgb() call that parse_rgb_string does not parse, a
\* theme-color that is a word
RejectedFragments == {FiveDigitRule, FourDigitRule, FontProperty, LongChannelRule}

\* the page without its rejected tokens
WithoutRejected(p) ==
    [p EXCEPT !.style_tags = SelectSeq(@, LAMBDA f : f \notin RejectedFragments),
              !.theme_color = IF @ \in {WordMeta, LongChannelContent} THEN None ELSE @]

\* C18: a token that is neither a valid 3- or 6-digit hex nor a parseable
\* rgb()/rgba() raises no error and adds nothing to the corpus: the
\* extraction returns, and the unique sequence and the counts are those of
\* the same page without the token.
C18_RejectedTokensAddNothing ==
    (pc # "start" /\ page.ok) =>
        /\ pc # "ValueError"
        /\ \A without \in {WithoutRejected(page)} :
           \A colors \in {collected_colors(_collect_css(without),
                                           without.theme_color)} :
               /\ unique_colors = counter_keys(colors)
               /\ color_counts = Counter(colors)
               /\ \A c \in Range(unique_colors) : IsHexColor(c)

(***************************************************************************)
(* Semantic colours: the same pipeline, started from pages of custom       *)
(* property declarations and uses.                                         *)
(***************************************************************************)
\* two declarations of a primary with different values
BluePrimary == str(<<"-", "-", "p", "r", "i", "m", "a", "r", "y", ":", " ", "#", "0", "0", "F", ";">>)
RedColorPrimary == str(<<"-", "-", "c", "o", "l", "o", "r", "-", "p", "r", "i", "m", "a", "r", "y", ":", "#", "F", "0", "0", ";">>)
\* a primary whose value is an rgb() call, and one whose value is a
\* 4-digit hex
RgbPrimary == str(<<"-", "-", "p", "r", "i", "m", "a", "r", "y", ":", "r", "g", "b", "(", "0", ",", "2", "5", "5", ",", "0", ")", ";">>)
FourDigitPrimary == str(<<"-", "-", "p", "r", "i", "m", "a", "r", "y", "-", "d", "i", "m", ":", "#", "a", "b", "c", "d", ";">>)
\* an accent, a background with an 8-digit hex, and a use of the primary
GreenAccent == str(<<"-", "-", "a", "c", "c", "e", "n", "t", ":", "#", "0", "f", "0", ";">>)
AlphaBackground == str(<<"-", "-", "b", "g", ":", " ", "#", "1", "a", "1", "a", "2", "e", "8", "0", ";">>)
PrimaryUse == str(<<"a", "{", "c", "o", "l", "o", "r", ":", "v", "a", "r", "(", "-", "-", "p", "r", "i", "m", "a", "r", "y", ")", "}">>)
\* a primary whose name has a prefix before the keyword
BrandPrimary == str(<<"-", "-", "b", "r", "a", "n", "d", "-", "p", "r", "i", "m", "a", "r", "y", ":", "#", "F", "0", "F", ";">>)

SemanticFragments ==
    {BluePrimary, RedColorPrimary, RgbPrimary, FourDigitPrimary, GreenAccent,
     AlphaBackground, PrimaryUse, BrandPrimary}

SemanticPages ==
    {StylePage(parts, None) :
        parts \in SeqsUpTo(SemanticFragments, MaxFrags)}

InitSemantic ==
    /\ pc = "start"
    /\ page \in SemanticPages
    /\ args = NoArgs
    /\ unique_colors = <<>>
    /\ color_counts = <<>>
    /\ semantic_colors = <<>>
    /\ classified = None
    /\ color_data = None
    /\ brand = None
    /\ color_arg = None
    /\ normalizations = <<>>
    /\ NoOthers

SpecSemantic == InitSemantic /\ [][Next]_vars

\* the positions of the text at which the pattern of the role matches
MatchPositions(css, role) ==
    {i \in 1..Len(css) : match_semantic_at(css, i, role).found}

\* the hex literal the first match of the role's pattern captures
FirstMatchValue(css, role) ==
    LET hits == MatchPositions(css, role)
    IN  match_semantic_at(css, CHOOSE i \in hits : \A h \in hits : i <= h, role).value

\* C20: for each role the semantic colours hold at most one value, the
\* normalized hex literal of the first match of the role's pattern in the
\* text; a role without a match is absent; a declaration whose value is an
\* rgb() call gives no value; and every value present is '#' followed by
\* six lowercase hexadecimal digits.
C20_SemanticFromFirstMatch ==
    (pc \notin {"start", "ValueError"} /\ page.ok) =>
        \A css \in {_collect_css(page)} :
            /\ DOMAIN semantic_colors \subseteq {"primary", "accent", "background"}
            /\ \A role \in {"primary", "accent", "background"} :
                   /\ MatchPositions(css, role) = {} => role \notin DOMAIN semantic_colors
                   /\ role \in DOMAIN semantic_colors =>
                         /\ IsHexColor(semantic_colors[role])
                         /\ FirstMatchValue(css, role)[1] = Hash
                         /\ semantic_colors[role]
                               = normalize_color(FirstMatchValue(css, role))
            /\ Range(page.style_tags) \subseteq {RgbPrimary} =>
                   DOMAIN semantic_colors = {}

\* C20 witness: the text declares the primary twice and the value of the
\* first declaration is the semantic primary
C20_Witness ==
    /\ pc = "extracted"
    /\ page.ok
    /\ page.style_tags = <<RgbPrimary, BluePrimary, RedColorPrimary>>
    /\ DOMAIN semantic_colors = {"primary"}
    /\ semantic_colors["primary"] = str(<<"#", "0", "0", "0", "0", "f", "f">>)

\* the custom-property declaration a fragment is: the roles whose keyword
\* its name contains and the colour of its own value when that value is a
\* hex literal (None otherwise); PrimaryUse declares nothing
Declaration(fragment) ==
    CASE fragment = BluePrimary ->
            [roles |-> {"primary"}, value |-> str(<<"#", "0", "0", "0", "0", "f", "f">>)]
      [] fragment = RedColorPrimary ->
            [roles |-> {"primary"}, value |-> str(<<"#", "f", "f", "0", "0", "0", "0">>)]
      [] fragment = BrandPrimary ->
            [roles |-> {"primary"}, value |-> str(<<"#", "f", "f", "0", "0", "f", "f">>)]
      [] fragment = RgbPrimary -> [roles |-> {"primary"}, value |-> None]
      [] fragment = FourDigitPrimary -> [roles |-> {"primary"}, value |-> None]
      [] fragment = GreenAccent -> [roles |-> {"accent"}, value |-> Green]
      [] fragment = AlphaBackground ->
            [roles |-> {"background"}, value |-> str(<<"#", "1", "a", "1", "a", "2", "e">>)]
      [] OTHER -> [roles |-> {}, value |-> None]

\* the colours the declarations of a page give a role by their own value
DeclaredValues(parts, role) ==
    {Declaration(parts[k]).value :
        k \in {j \in 1..Len(parts) : /\ role \in Declaration(parts[j]).roles
                                      /\ Declaration(parts[j]).value # None}}

\* C21: a role has a semantic colour exactly when the page holds a
\* custom-property declaration whose name contains the role's keyword
\* anywhere and whose own value is a hex literal, and the semantic colour
\* is the value of such a declaration.
C21_KeywordAnywhereOwnValue ==
    (pc \notin {"start", "ValueError"} /\ page.ok) =>
        \A role \in {"primary", "accent", "background"} :
            /\ role \in DOMAIN semantic_colors
                  <=> DeclaredValues(page.style_tags, role) # {}
            /\ role \in DOMAIN semantic_colors =>
                  semantic_colors[role] \in DeclaredValues(page.style_tags, role)

(***************************************************************************)
(* luminance as a function of one colour: the colour is drawn from the     *)
(* colours over LuminanceChannels and from three other written forms.      *)
(***************************************************************************)
\* the channel values at both ends of the range, on either side of the
\* linear part of gamma (c <= 0.03928 up to 10) and in the middle
LuminanceChannels == {0, 1, 10, 11, 127, 128, 254, 255}

LuminanceColors ==
    {canonical(t) :
        t \in LuminanceChannels \X LuminanceChannels \X LuminanceChannels}
      \cup {str(<<"#", "f", "f", "f">>), str(<<"#", "0", "0", "0">>),
            str(<<"#", "F", "F", "F", "F", "F", "F">>)}

InitLuminance ==
    /\ pc = "luminance"
    /\ color_arg \in LuminanceColors
    /\ luminance_value = None
    /\ page = None
    /\ args = None
    /\ unique_colors = <<>>
    /\ color_counts = <<>>
    /\ semantic_colors = None
    /\ classified = None
    /\ color_data = None
    /\ brand = None
    /\ normalizations = <<>>
    /\ NoCache
    /\ NoProvider
    /\ NoMain

\* luminance(color_arg)
call_luminance ==
    /\ pc = "luminance"
    /\ pc' = "luminance_done"
    /\ luminance_value' = luminance(color_arg)
    /\ UNCHANGED <<color_vars, cache_vars, provider_vars, main_vars>>

NextLuminance == call_luminance

SpecLuminance == InitLuminance /\ [][NextLuminance]_vars

\* C22: the luminance of every valid colour lies in [0, 1]; the luminance
\* of #000000 is 0 and that of #ffffff is 1.
C22_LuminanceBounds ==
    pc = "luminance_done" =>
        /\ float_le(FloatZero, luminance_value)
        /\ float_le(luminance_value, FloatOne)
        /\ color_arg = str(<<"#", "0", "0", "0", "0", "0", "0">>) =>
              luminance_value = FloatZero
        /\ color_arg = str(<<"#", "f", "f", "f", "f", "f", "f">>) =>
              luminance_value = FloatOne

\* C22 witness: the luminance of #ffffff has been computed and is 1
C22_Witness ==
    /\ pc = "luminance_done"
    /\ color_arg = str(<<"#", "f", "f", "f", "f", "f", "f">>)
    /\ luminance_value = FloatOne

(***************************************************************************)
(* app.py: the image cache.  The OrderedDict is the sequence of its        *)
(* entries, oldest first; a key is the number of an md5 digest.            *)
(***************************************************************************)
_CACHE_MAX_SIZE == 50

\* the keys of the cache
cache_keys(cache) == {cache[i].key : i \in 1..Len(cache)}

\* cache[key]
cache_value(cache, key) ==
    cache[CHOOSE i \in 1..Len(cache) : cache[i].key = key].value

\* OrderedDict.move_to_end(key)
move_to_end(cache, key) ==
    SelectSeq(cache, LAMBDA e : e.key # key)
      \o SelectSeq(cache, LAMBDA e : e.key = key)

\* cache[key] = value: in place for a key that is present, at the end for
\* a new one
set_item(cache, key, value) ==
    IF key \in cache_keys(cache)
    THEN [i \in 1..Len(cache) |->
            IF cache[i].key = key THEN [key |-> key, value |-> value] ELSE cache[i]]
    ELSE Append(cache, [key |-> key, value |-> value])

\* while len(cache) > _CACHE_MAX_SIZE: cache.popitem(last=False)
RECURSIVE evict_oldest(_)
evict_oldest(cache) ==
    IF Len(cache) > _CACHE_MAX_SIZE THEN evict_oldest(Tail(cache)) ELSE cache

\* _get_cached without the move to the end
_get_cached_no_move(cache, key) ==
    IF key \in cache_keys(cache)
    THEN [cache |-> cache, returns |-> cache_value(cache, key)]
    ELSE [cache |-> cache, returns |-> None]

\* _get_cached(key): the cache after the call and the value returned
_get_cached(cache, key) ==
    IF key \in cache_keys(cache)
    THEN [cache |-> move_to_end(cache, key), returns |-> cache_value(cache, key)]
    ELSE [cache |-> cache, returns |-> None]

\* _set_cached without the eviction
_set_cached_no_evict(cache, key, value) ==
    move_to_end(set_item(cache, key, value), key)

\* _set_cached(key, value): the cache after the call
_set_cached(cache, key, value) ==
    evict_oldest(move_to_end(set_item(cache, key, value), key))

\* the image bytes stored
PngA == str(<<"p", "n", "g", "-", "a">>)
PngB == str(<<"p", "n", "g", "-", "b">>)

CacheValues == {PngA, PngB}

\* the keys of the calls: the two oldest keys of a filled cache and a new one
CallKeys == {1, 2, _CACHE_MAX_SIZE + 1}

\* the calls that fill an empty cache with the keys 1..n
FillCalls(n) == [k \in 1..n |-> [op |-> "set", key |-> k, value |-> PngA]]

\* the cache after these calls, for n <= _CACHE_MAX_SIZE: one entry for
\* each call, in the order of the calls
filled_cache(n) == [k \in 1..n |-> [key |-> k, value |-> PngA]]

\* the cache has been filled by _CACHE_MAX_SIZE - 1 or _CACHE_MAX_SIZE calls
\* of _set_cached with distinct keys
InitCache ==
    /\ pc = "cache"
    /\ \E n \in {_CACHE_MAX_SIZE - 1, _CACHE_MAX_SIZE} :
          /\ cache_calls = FillCalls(n)
          /\ _image_cache = filled_cache(n)
    /\ requests = <<>>
    /\ NoColors
    /\ luminance_value = None
    /\ NoProvider
    /\ NoMain

\* a call of _get_cached(key)
call_get_cached ==
    /\ pc = "cache"
    /\ Len(cache_calls) < _CACHE_MAX_SIZE + MaxCalls
    /\ \E key \in CallKeys :
       \E got \in {_get_cached(_image_cache, key)} :
          /\ _image_cache' = got.cache
          /\ cache_calls' = Append(cache_calls,
                                   [op |-> "get", key |-> key, returns |-> got.returns])
    /\ UNCHANGED <<pc, requests, color_vars, luminance_value, provider_vars, main_vars>>

\* a call of _set_cached(key, value)
call_set_cached ==
    /\ pc = "cache"
    /\ Len(cache_calls) < _CACHE_MAX_SIZE + MaxCalls
    /\ \E key \in CallKeys, value \in CacheValues :
          /\ _image_cache' = _set_cached(_image_cache, key, value)
          /\ cache_calls' = Append(cache_calls,
                                   [op |-> "set", key |-> key, value |-> value])
    /\ UNCHANGED <<pc, requests, color_vars, luminance_value, provider_vars, main_vars>>

NextCache == call_get_cached \/ call_set_cached

SpecCache == InitCache /\ [][NextCache]_vars

\* C23: after any sequence of _get_cached and _set_cached calls the image
\* cache holds at most 50 entries.
C23_CacheAtMostFifty ==
    pc = "cache" => Len(_image_cache) <= 50

\* C23 witness: a _set_cached of a new key on a cache of 50 entries has
\* left 50 entries
C23_Witness ==
    /\ pc = "cache"
    /\ Len(cache_calls) > 50
    /\ cache_calls[50].key = 50
    /\ cache_calls[51] = [op |-> "set", key |-> 51, value |-> PngB]
    /\ Len(_image_cache) = 50
    /\ 51 \in cache_keys(_image_cache)

\* the position in the calls of the most recent use of a key: its last
\* _set_cached or _get_cached hit, 0 if it was never used
LastUse(calls, key) ==
    LET uses == {i \in 1..Len(calls) :
                    /\ calls[i].key = key
                    /\ calls[i].op = "get" => calls[i].returns # None}
    IN  IF uses = {} THEN 0 ELSE CHOOSE i \in uses : \A j \in uses : j <= i

\* the key of the cache whose most recent use is the oldest
LeastRecentlyUsed(calls, cache) ==
    CHOOSE k \in cache_keys(cache) :
        \A j \in cache_keys(cache) : LastUse(calls, k) <= LastUse(calls, j)

\* the entries of new other than key are those of old, with their values
OthersKept(old, new, key) ==
    \A k \in cache_keys(new) \ {key} :
        k \in cache_keys(old) /\ cache_value(new, k) = cache_value(old, k)

\* what one call does to the cache
LruStep ==
    LET call == cache_calls'[Len(cache_calls')]
        old == _image_cache
        new == _image_cache'
    IN  /\ call.op = "get" =>
              /\ cache_keys(new) = cache_keys(old)
              /\ OthersKept(old, new, 0)
        /\ call.op = "set" =>
              /\ cache_value(new, call.key) = call.value
              /\ OthersKept(old, new, call.key)
              /\ Len(new) = Cardinality(cache_keys(new))
              /\ cache_keys(new) =
                    IF call.key \in cache_keys(old) \/ Len(old) < 50
                    THEN cache_keys(old) \cup {call.key}
                    ELSE (cache_keys(old) \ {LeastRecentlyUsed(cache_calls, old)})
                            \cup {call.key}

\* C24: the cache evicts in least-recently-used order: a _set_cached of a
\* new key on a cache of 50 entries removes exactly the entry whose most
\* recent _get_cached hit or _set_cached is the oldest, every other entry
\* keeps its value, and a _set_cached of a key already present replaces
\* its value and evicts nothing.
C24_LruEviction == [][LruStep]_vars

\* C24 witness: on a cache of 50 entries the oldest key 1 was hit by
\* _get_cached, then a new key was set: key 2 has been evicted and key 1
\* is still cached
C24_Witness ==
    /\ pc = "cache"
    /\ Len(cache_calls) = 52
    /\ cache_calls[50].key = 50
    /\ cache_calls[51] = [op |-> "get", key |-> 1, returns |-> PngA]
    /\ cache_calls[52] = [op |-> "set", key |-> 51, value |-> PngB]
    /\ Len(_image_cache) = 50
    /\ 1 \in cache_keys(_image_cache)
    /\ 2 \notin cache_keys(_image_cache)
    /\ 51 \in cache_keys(_image_cache)

(***************************************************************************)
(* The cached preview endpoints /preview/logo and /preview/og (app.py).   *)
(* Each request is a coroutine on the one event loop: it runs from its    *)
(* start to "await asyncio.to_thread(...)" without interruption, the      *)
(* render runs in a worker thread, and the coroutine resumes after it.    *)
(* requests[r] is the frame of request r: its query, its position, and    *)
(* the locals cache_key, png_bytes and the response it returned.          *)
(***************************************************************************)
\* the name parameters of the requests
PreviewNames == {"Acme", "Zed"}

\* _cache_key: the digest of the endpoint and the query, one per distinct
\* argument tuple
_cache_key(endpoint, name) == <<endpoint, name>>

\* _generate_logo_sync: the PNG of the logo rendered for the brand
_generate_logo_sync(name) == <<"logo.png", name>>

\* _generate_og_sync: the PNG of the OG image rendered for the brand
_generate_og_sync(name) == <<"og.png", name>>

InitPreview ==
    /\ pc = "preview"
    /\ requests = <<>>
    /\ _image_cache = <<>>
    /\ cache_calls = <<>>
    /\ NoColors
    /\ luminance_value = None
    /\ NoProvider
    /\ NoMain

\* the handler from its start to its first suspension: on a hit it
\* returns the cached bytes, on a miss it hands the render to a thread
preview_start(endpoint, name, cache) ==
    LET cache_key == _cache_key(endpoint, name)
        got == _get_cached(cache, cache_key)
    IN  [cache |-> got.cache,
         request |-> [endpoint |-> endpoint, name |-> name,
                      cache_key |-> cache_key, png_bytes |-> None,
                      pc |-> IF got.returns # None THEN "done" ELSE "to_thread",
                      response |-> got.returns]]

preview_logo ==
    /\ pc = "preview"
    /\ Len(requests) < MaxRequests
    /\ \E name \in PreviewNames :
       \E started \in {preview_start("logo", name, _image_cache)} :
          /\ _image_cache' = started.cache
          /\ requests' = Append(requests, started.request)
    /\ UNCHANGED <<pc, cache_calls, color_vars, luminance_value,
                   provider_vars, main_vars>>

preview_og ==
    /\ pc = "preview"
    /\ Len(requests) < MaxRequests
    /\ \E name \in PreviewNames :
       \E started \in {preview_start("og", name, _image_cache)} :
          /\ _image_cache' = started.cache
          /\ requests' = Append(requests, started.request)
    /\ UNCHANGED <<pc, cache_calls, color_vars, luminance_value,
                   provider_vars, main_vars>>

\* the worker thread of a suspended request renders its image
render(endpoint, r) ==
    /\ pc = "preview"
    /\ requests[r].endpoint = endpoint
    /\ requests[r].pc = "to_thread"
    /\ requests' = [requests EXCEPT
          ![r].png_bytes = IF endpoint = "logo"
                           THEN _generate_logo_sync(requests[r].name)
                           ELSE _generate_og_sync(requests[r].name),
          ![r].pc = "rendered"]
    /\ UNCHANGED <<pc, _image_cache, cache_calls, color_vars, luminance_value,
                   provider_vars, main_vars>>

\* the handler after the await: it caches the rendered bytes and returns
preview_resume(endpoint, r) ==
    /\ pc = "preview"
    /\ requests[r].endpoint = endpoint
    /\ requests[r].pc = "rendered"
    /\ _image_cache' = _set_cached(_image_cache, requests[r].cache_key,
                                   requests[r].png_bytes)
    /\ requests' = [requests EXCEPT ![r].response = requests[r].png_bytes,
                                    ![r].pc = "done"]
    /\ UNCHANGED <<pc, cache_calls, color_vars, luminance_value,
                   provider_vars, main_vars>>

render_logo == \E r \in DOMAIN requests : render("logo", r)

render_og == \E r \in DOMAIN requests : render("og", r)

preview_logo_resume == \E r \in DOMAIN requests : preview_resume("logo", r)

preview_og_resume == \E r \in DOMAIN requests : preview_resume("og", r)

NextPreview ==
    \/ preview_logo
    \/ preview_og
    \/ render_logo
    \/ render_og
    \/ preview_logo_resume
    \/ preview_og_resume

SpecPreview == InitPreview /\ [][NextPreview]_vars

\* the requests that rendered their image
Rendered == {r \in DOMAIN requests : requests[r].png_bytes # None}

\* C25: under any interleaving of concurrent preview requests a render for
\* a cache key is performed at most once while the key's entry stays in
\* the cache (no entry is evicted here: fewer than 50 keys are requested),
\* and a request that found its key cached returns the stored bytes
\* without rendering.
C25_RenderedOncePerKey ==
    pc = "preview" =>
        /\ \A r1, r2 \in Rendered :
              (/\ requests[r1].cache_key = requests[r2].cache_key
               /\ requests[r1].cache_key \in cache_keys(_image_cache))
              => r1 = r2
        /\ \A r \in DOMAIN requests \ Rendered :
              requests[r].pc = "done" =>
                 /\ requests[r].cache_key \in cache_keys(_image_cache)
                 /\ requests[r].response =
                       cache_value(_image_cache, requests[r].cache_key)

(***************************************************************************)
(* The choice of the AI provider (generators/ai_generator.py).            *)
(* environ is os.environ restricted to the three keys the providers read, *)
(* requested_provider is AIGenerator.requested_provider, provider is the  *)
(* outcome of _get_provider: the name of the provider returned, or the    *)
(* exception raised.                                                      *)
(***************************************************************************)
openai == str(<<"o", "p", "e", "n", "a", "i">>)

pollinations == str(<<"p", "o", "l", "l", "i", "n", "a", "t", "i", "o", "n", "s">>)

gemini == str(<<"g", "e", "m", "i", "n", "i">>)

\* AIGenerator.PROVIDERS: the names of the registered providers
PROVIDERS == {openai, pollinations, gemini}

\* bool(x) of a str-or-None value
bool(x) == x # None /\ x # <<>>

\* the environments: each key is absent, empty, or holds a key
EnvironKeys == {"OPENAI_API_KEY", "GEMINI_API_KEY", "GOOGLE_API_KEY"}

EnvironValues == {<<>>, str(<<"s", "k">>)}

Environs == UNION {[keys -> EnvironValues] : keys \in SUBSET EnvironKeys}

\* the provider argument of AIGenerator: absent, empty, a registered name
\* or another name
RequestedProviders == {None, <<>>, str(<<"d", "a", "l", "l", "e">>)} \cup PROVIDERS

\* provider_class().is_available() of a registered provider
is_available(name, env) ==
    IF name = pollinations THEN TRUE
    ELSE IF name = openai
    THEN bool(dict_get(env, "OPENAI_API_KEY", None))
    ELSE bool(py_or(dict_get(env, "GEMINI_API_KEY", None),
                    dict_get(env, "GOOGLE_API_KEY", None)))

\* the auto-detection loop over the names, in their order
RECURSIVE first_available(_, _)
first_available(names, env) ==
    IF names = <<>>
    THEN [returns |-> None,
          raises |-> <<"RuntimeError", "No AI providers available">>]
    ELSE IF is_available(Head(names), env)
    THEN [returns |-> Head(names), raises |-> None]
    ELSE first_available(Tail(names), env)

\* a variant that falls back to auto-detection when the requested provider
\* is not available
_get_provider_fallback(requested, env) ==
    IF bool(requested) /\ requested \notin PROVIDERS
    THEN [returns |-> None,
          raises |-> <<"ValueError", "Unknown provider: ", requested>>]
    ELSE IF bool(requested) /\ is_available(requested, env)
    THEN [returns |-> requested, raises |-> None]
    ELSE first_available(<<openai, pollinations, gemini>>, env)

\* AIGenerator._get_provider
_get_provider(requested, env) ==
    IF bool(requested)
    THEN IF requested \notin PROVIDERS
         THEN [returns |-> None,
               raises |-> <<"ValueError", "Unknown provider: ", requested>>]
         ELSE IF ~is_available(requested, env)
         THEN [returns |-> None,
               raises |-> <<"RuntimeError", "Provider is not available",
                            requested>>]
         ELSE [returns |-> requested, raises |-> None]
    ELSE first_available(<<openai, pollinations, gemini>>, env)

InitProvider ==
    /\ pc = "AIGenerator"
    /\ environ \in Environs
    /\ requested_provider = None
    /\ provider = None
    /\ NoColors
    /\ luminance_value = None
    /\ NoCache
    /\ NoMain

\* AIGenerator.__init__ keeps the provider argument
AIGenerator_init ==
    /\ pc = "AIGenerator"
    /\ \E name \in RequestedProviders : requested_provider' = name
    /\ pc' = "_get_provider"
    /\ UNCHANGED <<environ, provider, color_vars, luminance_value,
                   cache_vars, main_vars>>

\* generate_logo or generate_og_image asks for the provider
call_get_provider ==
    /\ pc = "_get_provider"
    /\ provider' = _get_provider(requested_provider, environ)
    /\ pc' = "_get_provider_done"
    /\ UNCHANGED <<environ, requested_provider, color_vars, luminance_value,
                   cache_vars, main_vars>>

NextProvider == AIGenerator_init \/ call_get_provider

SpecProvider == InitProvider /\ [][NextProvider]_vars

\* a key of the environment is set: present and not empty, which is what
\* the providers test
IsSet(key) == key \in DOMAIN environ /\ environ[key] # <<>>

\* the registered providers that are available in the environment
Available ==
    {pollinations}
        \cup (IF IsSet("OPENAI_API_KEY") THEN {openai} ELSE {})
        \cup (IF IsSet("GEMINI_API_KEY") \/ IsSet("GOOGLE_API_KEY")
              THEN {gemini} ELSE {})

\* the first provider of the order openai, pollinations, gemini that is
\* available
Preferred ==
    IF openai \in Available THEN openai
    ELSE IF pollinations \in Available THEN pollinations
    ELSE gemini

\* C26: with no provider requested, _get_provider returns the first
\* available provider of the order openai, pollinations, gemini (openai
\* exactly when OPENAI_API_KEY is set) and raises "No AI providers
\* available" only when none is available; with a provider requested, an
\* unknown name raises ValueError and a known but unavailable one raises
\* RuntimeError, and no other provider is returned in its place.
C26_ProviderChoice ==
    pc = "_get_provider_done" =>
        IF requested_provider \in {None, <<>>}
        THEN /\ Available # {} => /\ provider.returns = Preferred
                                  /\ provider.raises = None
             /\ provider.returns = openai <=> IsSet("OPENAI_API_KEY")
             /\ provider.raises # None =>
                   /\ Available = {}
                   /\ provider.raises =
                         <<"RuntimeError", "No AI providers available">>
        ELSE IF requested_provider \notin PROVIDERS
        THEN /\ provider.returns = None
             /\ provider.raises[1] = "ValueError"
        ELSE IF requested_provider \notin Available
        THEN /\ provider.returns = None
             /\ provider.raises[1] = "RuntimeError"
        ELSE /\ provider.returns = requested_provider
             /\ provider.raises = None

\* C26 witness: gemini was requested without its key while OPENAI_API_KEY
\* is set: RuntimeError, not openai
C26_Witness ==
    /\ pc = "_get_provider_done"
    /\ requested_provider = gemini
    /\ IsSet("OPENAI_API_KEY")
    /\ ~IsSet("GEMINI_API_KEY")
    /\ ~IsSet("GOOGLE_API_KEY")
    /\ provider.returns = None
    /\ provider.raises[1] = "RuntimeError"

(***************************************************************************)
(* main of the command line (brand_kit_gen.py): the brand is extracted,   *)
(* the generation method is determined, and the generator of that method  *)
(* is run.  playwright_available is what is_playwright_available()        *)
(* answers on the machine, method is the local of main, generated_with    *)
(* lists the generators that were run.                                    *)
(***************************************************************************)
\* parse_args: --method, --ai and --provider, without colour overrides
MainArgs ==
    {[primary |-> None, accent |-> None, background |-> None,
      method |-> m, ai |-> ai, provider |-> p] :
        m \in {"html", "pil", "ai"}, ai \in BOOLEAN,
        p \in {None} \cup PROVIDERS}

\* the pages of the url: the fetch fails, a page with one rule, and the
\* two whose extraction raises ValueError, in ColorExtractor and in
\* BrandExtractor
MainPages ==
    {FailedPage,
     StylePage(<<WhiteRule>>, None),
     StylePage(<<LongChannelRule>>, None),
     InvalidUrlPage}

\* the environments of the run: no key, or the OpenAI key
MainEnvirons ==
    {e \in Environs : DOMAIN e \subseteq {"OPENAI_API_KEY"}
                      /\ \A k \in DOMAIN e : e[k] # <<>>}

InitMain ==
    /\ pc = "start"
    /\ page \in MainPages
    /\ args \in MainArgs
    /\ unique_colors = <<>>
    /\ color_counts = <<>>
    /\ semantic_colors = <<>>
    /\ classified = None
    /\ color_data = None
    /\ brand = None
    /\ color_arg = None
    /\ normalizations = <<>>
    /\ luminance_value = None
    /\ NoCache
    /\ environ \in MainEnvirons
    /\ requested_provider = None
    /\ provider = None
    /\ playwright_available \in BOOLEAN
    /\ method = None
    /\ generated_with = <<>>

\* the method main determines from the arguments and from Playwright
determined_method(a, available) ==
    LET m == IF a.ai THEN "ai" ELSE a.method
    IN  IF m = "html" /\ ~available THEN "pil" ELSE m

\* main, from the extracted brand to the method
determine_method ==
    /\ pc = "done"
    /\ pc' = "method"
    /\ method' = determined_method(args, playwright_available)
    /\ UNCHANGED <<playwright_available, generated_with, color_vars,
                   luminance_value, cache_vars, provider_vars>>

\* generate_with_html: the HTML generator renders the logo and the image
generate_with_html ==
    /\ pc = "method"
    /\ method = "html"
    /\ pc' = "generated"
    /\ generated_with' = Append(generated_with, "html")
    /\ UNCHANGED <<playwright_available, method, color_vars,
                   luminance_value, cache_vars, provider_vars>>

\* generate_with_ai: the AI generator asks for its provider; without one
\* the exception ends main with exit status 1
generate_with_ai ==
    /\ pc = "method"
    /\ method = "ai"
    /\ requested_provider' = args.provider
    /\ \E found \in {_get_provider(args.provider, environ)} :
          /\ provider' = found
          /\ pc' = IF found.raises # None THEN "exit_1" ELSE "generated"
    /\ generated_with' = Append(generated_with, "ai")
    /\ UNCHANGED <<playwright_available, method, environ, color_vars,
                   luminance_value, cache_vars>>

\* generate_with_pil: the PIL generator draws the logo and the image
generate_with_pil ==
    /\ pc = "method"
    /\ method # "html"
    /\ method # "ai"
    /\ pc' = "generated"
    /\ generated_with' = Append(generated_with, "pil")
    /\ UNCHANGED <<playwright_available, method, color_vars,
                   luminance_value, cache_vars, provider_vars>>

\* main's except Exception around the whole run: an exception of
\* extract_brand_identity is printed and the exit status is 1; no method
\* was determined and no generator run
exit_on_exception ==
    /\ pc = "ValueError"
    /\ pc' = "exit_1"
    /\ UNCHANGED <<playwright_available, method, generated_with, color_vars,
                   luminance_value, cache_vars, provider_vars>>

NextMain ==
    \/ extract_from_url
    \/ extract_brand_identity
    \/ determine_method
    \/ generate_with_html
    \/ generate_with_ai
    \/ generate_with_pil
    \/ exit_on_exception

SpecMain == InitMain /\ [][NextMain]_vars

\* the method selected on the command line: --ai, else --method
Selected == IF args.ai THEN "ai" ELSE args.method

\* main has passed the lines that determine the method
MethodDetermined == pc = "method" \/ generated_with # <<>>

\* C27: in main the method is ai whenever --ai is given, whatever --method
\* is; a selected html becomes pil exactly when Playwright is unavailable;
\* ai and pil are never replaced; and exactly one generator, that of the
\* method, is run per invocation: every invocation that has ended, with a
\* kit or with exit status 1, has run one.
C27_MethodAndGenerator ==
    /\ MethodDetermined =>
          /\ args.ai => method = "ai"
          /\ Selected = "html" =>
                method = (IF playwright_available THEN "html" ELSE "pil")
          /\ Selected \in {"ai", "pil"} => method = Selected
          /\ method \in {"html", "ai", "pil"}
          /\ Len(generated_with) <= 1
          /\ \A k \in 1..Len(generated_with) : generated_with[k] = method
    /\ pc \in {"generated", "exit_1"} => Len(generated_with) = 1

\* the fields of the result that the semantic colours do not supply: a
\* role without a hint, and theme and text without a background hint
Unhinted ==
    {role \in {"primary", "accent", "background"} :
        role \notin DOMAIN semantic_colors}
      \cup (IF "background" \in DOMAIN semantic_colors
            THEN {} ELSE {"theme", "text"})

\* C28: each semantic hint changes only its own role (a background hint
\* also theme and text): every other field of the result is the one the
\* classification of the same corpus returns without hints, so the accent
\* is not selected again relative to an overridden primary, and primary
\* and accent are not filtered again against an overridden background.
C28_HintsChangeOnlyTheirRole ==
    (pc \notin {"start", "ValueError"} /\ page.ok) =>
        LET plain == _classify_colors(unique_colors, color_counts)
        IN  \A field \in Unhinted : color_data[field] = plain[field]

\* C28 witness: a primary hint replaced the classified primary, and the
\* accent is still the one selected relative to the classified primary
\* (that primary itself, for want of another candidate)
C28_Witness ==
    /\ pc = "extracted"
    /\ page.ok
    /\ DOMAIN semantic_colors = {"primary"}
    /\ classified.primary # semantic_colors["primary"]
    /\ color_data.primary = semantic_colors["primary"]
    /\ color_data.accent = classified.accent
    /\ color_data.accent = classified.primary

\* C29: without semantic hints, for every corpus of at least two distinct
\* colours, primary and background are members of the corpus and differ;
\* primary equals background only for the corpus whose single colour is
\* #333333.
C29_PrimaryIsNotBackground ==
    pc = "classified" =>
        /\ Cardinality(Corpus) >= 2 =>
              /\ classified.primary \in Corpus
              /\ classified.background \in Corpus
              /\ classified.primary # classified.background
        /\ classified.primary = classified.background =>
              unique_colors = << str(<<"#", "3", "3", "3", "3", "3", "3">>) >>

\* C29 witness: a corpus of two colours in which the only colour that is
\* not gray is the background: the primary is the other, gray, colour
C29_Witness ==
    /\ pc = "classified"
    /\ Cardinality(Corpus) = 2
    /\ classified.background = str(<<"#", "f", "f", "0", "0", "0", "0">>)
    /\ classified.primary \in Corpus
    /\ classified.primary # classified.background
    /\ is_grayscale(classified.primary)

(***************************************************************************)
(* Extraction from pages that write one colour per declaration, as the    *)
(* whole value of a custom property or in an ordinary declaration: the    *)
(* same pipeline, started from pages over DeclaredFragments.              *)
(***************************************************************************)
\* a custom property whose value is an rgb() call
GreenRgbProperty == str(<<"-", "-", "y", ":", " ", "r", "g", "b", "(", "0", ",", " ", "2", "5", "5", ",", " ", "0", ")", ";">>)
\* an ordinary declaration of a 6-digit hex literal
GreenRule == str(<<"c", "{", "f", "i", "l", "l", ":", "#", "0", "0", "f", "f", "0", "0", "}">>)
\* a custom property whose value is a 6-digit hex literal in upper case
WhiteProperty == str(<<"-", "-", "w", ":", " ", "#", "F", "F", "F", "F", "F", "F", ";">>)

DeclaredFragments ==
    {GreenProperty, GreenRgbProperty, WhiteProperty, WhiteCrLfProperty,
     GreenRule, GreenRgbRule, WhiteRule}

DeclaredPages ==
    {StylePage(parts, None) :
        parts \in SeqsUpTo(DeclaredFragments, MaxFrags)}

InitDeclared ==
    /\ pc = "start"
    /\ page \in DeclaredPages
    /\ args = NoArgs
    /\ unique_colors = <<>>
    /\ color_counts = <<>>
    /\ semantic_colors = <<>>
    /\ classified = None
    /\ color_data = None
    /\ brand = None
    /\ color_arg = None
    /\ normalizations = <<>>
    /\ NoOthers

SpecDeclared == InitDeclared /\ [][Next]_vars

\* the fragments that write the colour c once as the whole value of a
\* custom-property declaration, and those that write it once in an
\* ordinary declaration
PropertiesOf(c) ==
    IF c = Green THEN {GreenProperty, GreenRgbProperty}
    ELSE IF c = White THEN {WhiteProperty, WhiteCrLfProperty}
    ELSE {}

RulesOf(c) ==
    IF c = Green THEN {GreenRule, GreenRgbRule}
    ELSE IF c = White THEN {WhiteRule}
    ELSE {}

\* the number of fragments of the page that are in the set
TimesWritten(fragments) ==
    Cardinality({k \in 1..Len(page.style_tags) : page.style_tags[k] \in fragments})

\* C30: a colour written once as the whole value of a custom-property
\* declaration (--name: #hex; or --name: rgb(...);) adds two occurrences
\* to its count, one of the literal scan and one of the custom-property
\* scan, and the same colour written once in an ordinary declaration adds
\* one.
C30_PropertyCountsTwice ==
    (pc \notin {"start", "ValueError"} /\ page.ok) =>
        \A c \in {Green, White} :
            dict_get(color_counts, c, 0)
                = 2 * TimesWritten(PropertiesOf(c)) + TimesWritten(RulesOf(c))

\* C30 witness: green is written once as a hex property, once as an rgb()
\* property and once in an ordinary declaration, and is counted five times
C30_Witness ==
    /\ pc = "extracted"
    /\ page.ok
    /\ page.style_tags = <<GreenRule, GreenProperty, GreenRgbProperty>>
    /\ unique_colors = <<Green>>
    /\ color_counts[Green] = 5

====
